---------------------------- MODULE Spec2Model ----------------------------
(***************************************************************************)
(* A model of the climate data updater, scripts/update-climate-data.mjs:   *)
(* the fetch client (fetchWithRetry), the point normalizer and series      *)
(* sanitizer, the map snapshot fetcher (downloadMapWithFallback), one      *)
(* update run (updateOnce) and the command's main loop (run); of the       *)
(* verifier, scripts/verify-climate-data.mjs; and of the dashboard's       *)
(* bundled sample data (src/data/bundled-sample.ts) and data loader        *)
(* (src/data/adapter.ts, src/data/loader.ts).                              *)
(*                                                                         *)
(* Representation.                                                         *)
(*  - A calendar date (the ISO string "YYYY-MM-DD") is its day number,     *)
(*    counted from 2024-01-01 = 0; InvalidDate stands for any string that  *)
(*    is not of the form YYYY-MM-DD, NoSuchDay for a string of that form   *)
(*    that names no day ("2024-13-45") and that Date.parse turns into NaN. *)
(*    Overflowing(d) is a string of that form whose day is past the end of *)
(*    its month and that Date.parse reads as day d.                        *)
(*    yearDayFromIso is computed with the real lengths of the years.       *)
(*    Times are in days, not milliseconds.                                 *)
(*  - A point is a record [date, value]; NotANumber stands for a value     *)
(*    Number() does not turn into a finite number.                         *)
(*  - null is the record Null.                                             *)
(*  - A CSV file is the list of its rows and a row the list of its column  *)
(*    tokens.  A token is the number its text stands for, or NotANumber    *)
(*    for text Number() turns into NaN; a column the row does not have     *)
(*    reads as NotANumber too.  Measured values are in hundredths of       *)
(*    their unit (422.10 ppm is 42210).                                    *)
(*  - A series of the dataset file is its last points, listed, after a     *)
(*    count of earlier points that are all valid, in range and increasing: *)
(*    `old` of them more than 365 days old and `recent` of them within     *)
(*    the last 365 days, the last one dated PrefixLastDate.                *)
(*  - In the anomaly derivation a date is the record [y, m, d] and a value *)
(*    an IEEE-754 double, Double(mag), whose magnitude is a number of      *)
(*    units of 2^-49 written in four limbs of 20 bits.                     *)
(*  - A command-line argument is a record; the value of                    *)
(*    --interval-minutes is in tenths of a minute.                         *)
(*                                                                         *)
(* Specifications.                                                         *)
(*  - Spec          run(): update runs, once or in the watch loop.         *)
(*  - SpecFetch     one call of fetchWithRetry, attempt by attempt, with   *)
(*                  the history of its HTTP attempts.                      *)
(*  - SpecSanitize  sanitizeSeries applied to bounded inputs.              *)
(*  - SpecLive      Spec with the fairness the event loop provides.        *)
(*  - SpecNormalize normalizePoints applied to bounded inputs, and again   *)
(*                  to its own result.                                     *)
(*  - SpecMerge     mergeSeaIceSeries applied to two sanitized series.     *)
(*  - SpecParse     the CSV parsers applied to bounded files.              *)
(*  - SpecVerify    one run of the verifier, scripts/verify-climate-data,  *)
(*                  on a bounded dataset file.                             *)
(*  - SpecAnomaly   climatologyByDayOfYear and deriveAnomalySeries on a    *)
(*                  series that covers the baseline window.                *)
(*  - SpecCli       parseCliOptions applied to bounded command lines.      *)
(*  - SpecLoad      one call of the dashboard's loadRuntimeDataSource.     *)
(*  - SpecAgree     a series sanitized by the updater, then checked by     *)
(*                  the verifier.                                          *)
(*  - SpecSeaIce    the three sea-ice series of updateOnce, from the       *)
(*                  parsed files to the written dataset file.              *)
(*  - SpecReanalyzer the two parsers of the Climate Reanalyzer payload.    *)
(***************************************************************************)
EXTENDS Integers, Sequences, FiniteSets, TLC

VARIABLES
    pc,          \* run(): "start", "fetching", "maps", "sleeping", "exit0", "exit1"
    watch,       \* options.watch
    calls,       \* the elements of updateOnce's Promise.all: source -> fetchWithRetry call
    series,      \* the sanitized series of the run, by metric key (<<>> before they are computed)
    dl,          \* the map job loop and its downloadMapWithFallback call; lastResult and
                 \* probed are history (of the call in progress, or of the job just ended)
    mapSources,  \* updateOnce's mapSources, by map key
    mapWarnings, \* updateOnce's mapWarnings
    disk,        \* the files under public/data
    written,     \* history: the files written since the current updateOnce began
    outcome,     \* how the latest finished updateOnce ended: Null, [kind |-> "ok"], or the error thrown
    call,        \* SpecFetch: the fetchWithRetry call
    trace,       \* SpecFetch: history of the call's HTTP attempts
    sanIn,       \* SpecSanitize: the points given to sanitizeSeries
    sanLimits,   \* SpecSanitize: the limits given to sanitizeSeries
    sanOut,      \* SpecSanitize: what sanitizeSeries returned (Null before the call)
    normIn,      \* SpecNormalize: the points given to normalizePoints
    normOut,     \* SpecNormalize: what normalizePoints returned (Null before the call)
    normAgain,   \* SpecNormalize: what normalizePoints returned for normOut's points
    north,       \* SpecMerge: the Arctic series given to mergeSeaIceSeries
    south,       \* SpecMerge: the Antarctic series given to mergeSeaIceSeries
    merged,      \* SpecMerge: what mergeSeaIceSeries returned (Null before the call)
    csv,         \* SpecParse: the parser called and the rows of the file it is given;
                 \* SpecReanalyzer: the payload given to the two parsers
    parserOut,   \* SpecParse, SpecReanalyzer: what was returned (Null before the call)
    artifact,    \* SpecVerify: the content of public/data/climate-realtime.json
    report,      \* SpecVerify: what the verifier printed and its exit code (Null before it ran)
    anomIn,      \* SpecAnomaly: the series given to climatologyByDayOfYear and deriveAnomalySeries
    buckets,     \* SpecAnomaly: climatologyByDayOfYear's buckets, and the number of points its
                 \* loop has gone through (Null outside the call)
    climatology, \* SpecAnomaly: what climatologyByDayOfYear returned (Null before the call)
    anomalies,   \* SpecAnomaly: what deriveAnomalySeries returned (Null before the call)
    argv,        \* process.argv.slice(2)
    options,     \* what parseCliOptions returned or threw (Null before the call)
    helpPrinted, \* whether printHelp was called
    localFile,   \* SpecLoad: what the fetch of ./data/climate-realtime.json gives the dashboard
    loadPc,      \* SpecLoad: loadRuntimeDataSource: "idle", "local", "remote", "done"
    liveResults, \* SpecLoad: history: the results of the Promise.allSettled of the loaders
                 \* (Null when the loaders were not called)
    dataSource   \* SpecLoad: the input given to createDataSourceFromSeries and what
                 \* loadRuntimeDataSource returned (Null before it returns)

runVars == <<pc, watch, calls, series, dl, mapSources, mapWarnings, disk, written, outcome>>
fetchVars == <<call, trace>>
sanVars == <<sanIn, sanLimits, sanOut>>
normVars == <<normIn, normOut, normAgain>>
mergeVars == <<north, south, merged>>
parseVars == <<csv, parserOut>>
verifyVars == <<artifact, report>>
anomVars == <<anomIn, buckets, climatology, anomalies>>
cliVars == <<argv, options, helpPrinted>>
loadVars == <<localFile, loadPc, liveResults, dataSource>>
moreVars == <<anomVars, cliVars, loadVars>>
updaterVars == <<runVars, fetchVars, sanVars, normVars, mergeVars, parseVars, verifyVars>>
vars == <<pc, watch, calls, series, dl, mapSources, mapWarnings, disk, written, outcome,
          call, trace, sanIn, sanLimits, sanOut, normIn, normOut, normAgain,
          north, south, merged, csv, parserOut, artifact, report, moreVars>>

Null == [kind |-> "null"]

-----------------------------------------------------------------------------
(* Constants of the script *)

FUTURE_TOLERANCE_DAYS == 0
FETCH_RETRY_ATTEMPTS == 3
FETCH_RETRY_BASE_DELAY_MS == 1500
MaxBackDaysDefault == 20
ECMWF_PREINDUSTRIAL_OFFSET_C == 88     \* 0.88, in hundredths
DEFAULT_INTERVAL_MINUTES == 3600       \* 360, in tenths

(* "now": the run's current UTC day, 2025-01-10 *)
Today == 375

(* Bounds of the checked inputs *)
MaxLen == 2          \* longest point list given to sanitizeSeries
DateSpan == 2        \* point dates range over Today - DateSpan .. Today + 1
MaxAgeRange == 2     \* limits.maxAgeDays ranges over 0 .. MaxAgeRange
MaxNormLen == 3      \* longest point list given to normalizePoints
MaxRows == 3         \* most rows in a file given to a parser
MaxArgs == 2         \* most arguments on the command line
MaxChanged == 1      \* most days of the baseline window that differ from the others

-----------------------------------------------------------------------------
(* Dates *)

InvalidDate == -1
NoSuchDay == -2
NotANumber == -1000

IsLeapYear(y) == (y % 4 = 0 /\ y % 100 # 0) \/ y % 400 = 0
DaysInYear(y) == IF IsLeapYear(y) THEN 366 ELSE 365

\* A date of the form YYYY-MM-DD whose day is past the end of its month, such
\* as 2024-11-31.  ECMAScript asks Date.parse for NaN here, and an engine that
\* answers so reads the date as NoSuchDay; the engine that runs the scripts
\* (Node.js) accepts every day up to 31 and counts on into the next month, so
\* that 2024-11-31 is read as the day 2024-12-01 is.  Overflowing(day) is such
\* a date, read as `day`.
OverflowBase == 100000
Overflowing(day) == OverflowBase + day
IsOverflowing(dateIso) == dateIso >= OverflowBase

\* Date.parse(`${dateIso}T00:00:00Z`), or Null
parseIsoDateToUtc(dateIso) ==
    IF dateIso \in {InvalidDate, NoSuchDay} THEN Null
    ELSE IF IsOverflowing(dateIso) THEN [kind |-> "time", t |-> dateIso - OverflowBase]
    ELSE [kind |-> "time", t |-> dateIso]

RECURSIVE YearDayFrom(_, _)
YearDayFrom(y, d) ==
    IF d < DaysInYear(y) THEN [kind |-> "yearDay", year |-> y, dayOfYear |-> d + 1]
    ELSE YearDayFrom(y + 1, d - DaysInYear(y))

yearDayFromIso(dateIso) ==
    LET parsed == parseIsoDateToUtc(dateIso) IN
    IF parsed = Null THEN Null ELSE YearDayFrom(2024, parsed.t)

addUtcDays(dateIso, deltaDays) ==
    LET parsed == parseIsoDateToUtc(dateIso) IN
    IF parsed = Null THEN InvalidDate ELSE parsed.t + deltaDays

mapDayToken(dayOfYear) ==
    IF dayOfYear < 1 THEN 1 ELSE IF dayOfYear > 366 THEN 366 ELSE dayOfYear

-----------------------------------------------------------------------------
(* Point normalizer and series sanitizer *)

IsFiniteNumber(v) == v # NotANumber

\* line 177: /^\d{4}-\d{2}-\d{2}$/.test(date)
MatchesDatePattern(date) == date # InvalidDate

LastValueFor_Mutant(points, date) ==
    LET idx == {i \in 1..Len(points) :
                    points[i].date = date /\ IsFiniteNumber(points[i].value)}
        first == CHOOSE i \in idx : \A j \in idx : i <= j
    IN points[first].value

\* the Map built by lines 173-180: what map.get(date) is after the loop
LastValueFor(points, date) ==
    LET idx == {i \in 1..Len(points) :
                    points[i].date = date /\ IsFiniteNumber(points[i].value)}
        last == CHOOSE i \in idx : \A j \in idx : j <= i
    IN points[last].value

\* The entries of the Map of lines 173-180, in the order Map keeps them: the
\* order in which the dates were first set.
MapEntries(points) ==
    LET kept == {i \in 1..Len(points) :
                    MatchesDatePattern(points[i].date) /\ IsFiniteNumber(points[i].value)}
        firsts == {i \in kept : \A j \in kept : points[j].date = points[i].date => i <= j}
        nth(k) == CHOOSE i \in firsts : Cardinality({j \in firsts : j < i}) = k - 1
    IN [k \in 1..Cardinality(firsts) |->
            [date |-> points[nth(k)].date, value |-> LastValueFor(points, points[nth(k)].date)]]

\* the day Date.parse reads in a date
DayRead(date) ==
    IF parseIsoDateToUtc(date) = Null THEN date ELSE parseIsoDateToUtc(date).t

\* normalizePoints when Date.parse reads a day in every date it keeps: the sort
\* of line 183, which is stable, orders the entries of the Map by that day and
\* leaves entries of the same day in the order of the Map
normalizePoints(points) ==
    LET entries == MapEntries(points)
        before(i, j) ==
            \/ DayRead(entries[i].date) < DayRead(entries[j].date)
            \/ DayRead(entries[i].date) = DayRead(entries[j].date) /\ i < j
        rank(i) == Cardinality({j \in 1..Len(entries) : before(j, i)}) + 1
    IN [k \in 1..Len(entries) |-> entries[CHOOSE i \in 1..Len(entries) : rank(i) = k]]

\* line 183: the comparator given to sort; a NaN result counts as +0
CompareEntries(a, b) ==
    LET ta == parseIsoDateToUtc(a.date)
        tb == parseIsoDateToUtc(b.date)
    IN IF ta = Null \/ tb = Null THEN 0 ELSE ta.t - tb.t

\* Array.prototype.sort asks for a consistent comparator: entries that compare
\* equal to a third compare equal to each other
ConsistentComparator(entries) ==
    \A i, j, k \in 1..Len(entries) :
        (CompareEntries(entries[i], entries[j]) = 0 /\ CompareEntries(entries[j], entries[k]) = 0)
            => CompareEntries(entries[i], entries[k]) = 0

Orderings(n) == {p \in [1..n -> 1..n] : \A i, j \in 1..n : p[i] = p[j] => i = j}

SortOrders_Mutant(entries) ==
    {[k \in 1..Len(entries) |-> Len(entries) + 1 - k]}

\* line 183: the orders sort can leave the entries in.  With a consistent
\* comparator the sort is stable and ascending; otherwise the order is the
\* engine's choice.
SortOrders(entries) ==
    IF ConsistentComparator(entries)
    THEN {p \in Orderings(Len(entries)) :
            \A i, j \in 1..Len(entries) :
                i < j => LET c == CompareEntries(entries[p[i]], entries[p[j]])
                         IN c < 0 \/ (c = 0 /\ p[i] < p[j])}
    ELSE Orderings(Len(entries))

\* lines 172-185: what normalizePoints can return for any list of points
normalizePointsResults(points) ==
    LET entries == MapEntries(points)
    IN {[k \in 1..Len(entries) |-> entries[p[k]]] : p \in SortOrders(entries)}

IsStale_Mutant(latestTime, staleLimit) == latestTime <= staleLimit

\* line 206: latestTime < staleLimit
IsStale(latestTime, staleLimit) == latestTime < staleLimit

KeepsPoint_Mutant(point, limits) ==
    /\ IsFiniteNumber(point.value)
    /\ point.value >= limits.minValue
    /\ point.value <= limits.maxValue
    /\ parseIsoDateToUtc(point.date) # Null

\* lines 193-199: the filter of sanitizeSeries
KeepsPoint(point, limits) ==
    /\ IsFiniteNumber(point.value)
    /\ point.value >= limits.minValue
    /\ point.value <= limits.maxValue
    /\ parseIsoDateToUtc(point.date) # Null
    /\ parseIsoDateToUtc(point.date).t <= Today + FUTURE_TOLERANCE_DAYS

sanitizeSeries(points, limits) ==
    LET staleLimit == Today - limits.maxAgeDays
        filtered == SelectSeq(points, LAMBDA p : KeepsPoint(p, limits))
        normalized == normalizePoints(filtered)
    IN IF normalized = <<>> THEN <<>>
       ELSE LET latest == normalized[Len(normalized)]
                latestTime == parseIsoDateToUtc(latest.date)
            IN IF latestTime = Null \/ IsStale(latestTime.t, staleLimit) THEN <<>>
               ELSE normalized

-----------------------------------------------------------------------------
(* One call of fetchWithRetry(url, responseType) *)

ResponseTypes == {"json", "text", "arrayBuffer"}

\* What one fetch() of an attempt can meet: a transport error (the request
\* rejects, or the 30 s timeout aborts it), or a response with a status and a body.
\* Body "good" is a well-formed payload of current data; "other" is well formed
\* but holds nothing usable (old data, another shape); "invalid" is not JSON;
\* "empty" has no bytes.
Bodies == {"good", "other", "invalid", "empty"}
Responses ==
    {[kind |-> "transport", status |-> 0, body |-> "empty"]}
    \cup [kind : {"http"}, status : {200, 404}, body : Bodies]

ResponseOk(resp) == resp.status >= 200 /\ resp.status <= 299

NewCall(url, responseType) ==
    [url |-> url, responseType |-> responseType, attempt |-> 1, st |-> "inflight",
     lastError |-> Null, waitMs |-> 0, result |-> Null, error |-> Null]

\* lines 219-231: the try block of one attempt: the value returned, or the error thrown
AttemptResult(c, resp) ==
    IF resp.kind = "transport" THEN [thrown |-> TRUE, value |-> [kind |-> "transport"]]
    ELSE IF ~ResponseOk(resp)
        THEN [thrown |-> TRUE, value |-> [kind |-> "http", status |-> resp.status]]
    ELSE IF c.responseType = "json" /\ resp.body \in {"invalid", "empty"}
        THEN [thrown |-> TRUE, value |-> [kind |-> "parse"]]
    ELSE [thrown |-> FALSE,
          value |-> [kind |-> "payload", responseType |-> c.responseType, body |-> resp.body]]

RetryWait_Mutant(attempt) == FETCH_RETRY_BASE_DELAY_MS

\* line 235
RetryWait(attempt) == FETCH_RETRY_BASE_DELAY_MS * attempt

\* lines 214-244: attempt c.attempt ends with response resp
AttemptDone(c, resp) ==
    LET r == AttemptResult(c, resp) IN
    IF ~r.thrown THEN [c EXCEPT !.st = "returned", !.result = r.value]
    ELSE IF c.attempt < FETCH_RETRY_ATTEMPTS
        THEN [c EXCEPT !.st = "sleeping", !.lastError = r.value, !.waitMs = RetryWait(c.attempt)]
    ELSE [c EXCEPT !.st = "thrown", !.lastError = r.value, !.waitMs = 0,
                   !.error = [kind |-> "fetch", url |-> c.url,
                              attempts |-> FETCH_RETRY_ATTEMPTS, reason |-> r.value]]

\* the sleep of line 236 is over: the loop goes on to the next attempt
WakeCall(c) == [c EXCEPT !.st = "inflight", !.attempt = c.attempt + 1, !.waitMs = 0]

\* the whole call, given the responses its attempts meet
RECURSIVE RunCall(_, _)
RunCall(c, resps) ==
    IF c.st = "inflight" THEN RunCall(AttemptDone(c, resps[c.attempt]), resps)
    ELSE IF c.st = "sleeping" THEN RunCall(WakeCall(c), resps)
    ELSE c

fetchWithRetry(url, responseType, resps) == RunCall(NewCall(url, responseType), resps)

\* the promise a call returns, as its awaiter sees it
Pending == [st |-> "pending", value |-> Null, error |-> Null]
Settled(c) ==
    IF c.st = "returned" THEN [st |-> "fulfilled", value |-> c.result, error |-> Null]
    ELSE [st |-> "rejected", value |-> Null, error |-> c.error]

ResponseSeqs == [1..FETCH_RETRY_ATTEMPTS -> Responses]

-----------------------------------------------------------------------------
(* SpecFetch: one call, attempt by attempt *)

IdleRun ==
    /\ pc = "idle" /\ watch = FALSE /\ calls = <<>> /\ series = <<>> /\ dl = Null
    /\ mapSources = <<>> /\ mapWarnings = <<>> /\ disk = Null /\ written = {}
    /\ outcome = Null
IdleFetch == call = Null /\ trace = <<>>
IdleSanitize == sanIn = <<>> /\ sanLimits = Null /\ sanOut = Null
IdleNormalize == normIn = <<>> /\ normOut = Null /\ normAgain = Null
IdleMerge == north = <<>> /\ south = <<>> /\ merged = Null
IdleParse == csv = Null /\ parserOut = Null
IdleVerify == artifact = Null /\ report = Null
IdleAnomaly == anomIn = Null /\ buckets = Null /\ climatology = Null /\ anomalies = Null
IdleCli == argv = <<>> /\ options = Null /\ helpPrinted = FALSE
IdleLoad == localFile = Null /\ loadPc = "idle" /\ liveResults = Null /\ dataSource = Null
IdleMore == IdleAnomaly /\ IdleLoad
IdleLibrary == IdleNormalize /\ IdleMerge /\ IdleParse /\ IdleVerify /\ IdleMore

InitFetch ==
    /\ \E url \in {"u1", "u2"}, t \in ResponseTypes : call = NewCall(url, t)
    /\ trace = <<>>
    /\ IdleRun /\ IdleSanitize /\ IdleLibrary /\ IdleCli

CallAttempt ==
    /\ call.st = "inflight"
    /\ \E resp \in Responses :
        /\ call' = AttemptDone(call, resp)
        /\ trace' = Append(trace, [resp |-> resp, waitMs |-> call'.waitMs])
    /\ UNCHANGED <<runVars, sanVars, normVars, mergeVars, parseVars, verifyVars, moreVars>>

CallWake ==
    /\ call.st = "sleeping"
    /\ call' = WakeCall(call)
    /\ UNCHANGED <<trace, runVars, sanVars, normVars, mergeVars, parseVars, verifyVars, moreVars>>

NextFetch == CallAttempt \/ CallWake

SpecFetch == InitFetch /\ [][NextFetch]_vars

-----------------------------------------------------------------------------
(* SpecSanitize: sanitizeSeries on bounded inputs *)

PointDates == (Today - DateSpan .. Today + 1) \cup {InvalidDate, NoSuchDay}
PointValues == {0, 1, 2, 3, NotANumber}
Points == [date : PointDates, value : PointValues]
PointLists == UNION {[1..n -> Points] : n \in 0..MaxLen}
LimitsSet == [minValue : {1}, maxValue : {2}, maxAgeDays : 0..MaxAgeRange]

InitSanitize ==
    /\ sanIn \in PointLists
    /\ sanLimits \in LimitsSet
    /\ sanOut = Null
    /\ IdleRun /\ IdleFetch /\ IdleLibrary /\ IdleCli

ApplySanitize ==
    /\ sanOut = Null
    /\ sanOut' = [kind |-> "series", points |-> sanitizeSeries(sanIn, sanLimits)]
    /\ UNCHANGED <<sanIn, sanLimits, runVars, fetchVars, normVars, mergeVars, parseVars, verifyVars, moreVars>>

NextSanitize == ApplySanitize

SpecSanitize == InitSanitize /\ [][NextSanitize]_vars

-----------------------------------------------------------------------------
(* The CSV parsers, and SpecParse: a parser applied to a bounded file *)

DaysInMonth(y, m) ==
    IF m = 2 THEN (IF IsLeapYear(y) THEN 29 ELSE 28)
    ELSE IF m \in {4, 6, 9, 11} THEN 30 ELSE 31

RECURSIVE DaysBeforeMonth(_, _)
DaysBeforeMonth(y, m) == IF m = 1 THEN 0 ELSE DaysBeforeMonth(y, m - 1) + DaysInMonth(y, m - 1)

RECURSIVE DaysBeforeYear(_)
DaysBeforeYear(y) == IF y <= 2024 THEN 0 ELSE DaysBeforeYear(y - 1) + DaysInYear(y - 1)

\* lines 55-61: the date of year, month, day, or Null when they name no day
formatDateFromParts(year, month, day) ==
    IF year = NotANumber \/ month = NotANumber \/ day = NotANumber THEN Null
    ELSE IF month < 1 \/ month > 12 \/ day < 1 \/ day > 31 THEN Null
    ELSE IF day > DaysInMonth(year, month) THEN Null
    ELSE [kind |-> "date", date |-> DaysBeforeYear(year) + DaysBeforeMonth(year, month) + day - 1]

\* columns[i] of a row, i counted from 0; Number(undefined) is NaN
Column(columns, i) == IF i + 1 <= Len(columns) THEN columns[i + 1] ELSE NotANumber

\* lines 370 and 397, candidates.find(...): the first candidate that is finite, above 0
\* and below the limit, or Null
FirstCandidate(candidates, limit) ==
    LET ok == {i \in 1..Len(candidates) :
                  candidates[i] # NotANumber /\ candidates[i] > 0 /\ candidates[i] < limit}
    IN IF ok = {} THEN Null
       ELSE [kind |-> "value", v |-> candidates[CHOOSE i \in ok : \A j \in ok : i <= j]]

\* line 396: the candidate columns of a row of the NOAA CO2 file
Co2Candidates(columns) == <<Column(columns, 4), Column(columns, 5), Column(columns, 6)>>

\* lines 383-401: the points one row of the NOAA CO2 file adds
Co2RowPoints(columns) ==
    IF Len(columns) < 5 THEN <<>>
    ELSE LET date == formatDateFromParts(Column(columns, 0), Column(columns, 1), Column(columns, 2))
             value == FirstCandidate(Co2Candidates(columns), 100000)
         IN IF date = Null \/ value = Null THEN <<>>
            ELSE <<[date |-> date.date, value |-> value.v]>>

\* lines 354-374: the points one row of an NSIDC daily extent file adds
NsidcRowPoints(columns) ==
    IF Len(columns) < 4 THEN <<>>
    ELSE LET date == formatDateFromParts(Column(columns, 0), Column(columns, 1), Column(columns, 2))
             extent == FirstCandidate(<<Column(columns, 3), Column(columns, 4), Column(columns, 5)>>, 10000)
         IN IF date = Null \/ extent = Null THEN <<>>
            ELSE <<[date |-> date.date, value |-> extent.v]>>

\* header.indexOf(name), counted from 0; -1 when the header has no such column
IndexOf(header, name) ==
    LET at == {i \in 1..Len(header) : header[i] = name}
    IN IF at = {} THEN -1 ELSE (CHOOSE i \in at : \A j \in at : i <= j) - 1

\* lines 584-594: the points one data row of the ECMWF Climate Pulse file adds
EcmwfRowPoints(header, columns) ==
    LET dateColumn == IndexOf(header, "date")
        anomalyColumn == IndexOf(header, "ano_91-20")
    IN IF dateColumn < 0 \/ anomalyColumn < 0 THEN <<>>
       ELSE IF Len(columns) <= dateColumn \/ Len(columns) <= anomalyColumn THEN <<>>
       ELSE IF ~MatchesDatePattern(Column(columns, dateColumn)) THEN <<>>
       ELSE IF Column(columns, anomalyColumn) = NotANumber THEN <<>>
       ELSE <<[date |-> Column(columns, dateColumn),
               value |-> Column(columns, anomalyColumn) + ECMWF_PREINDUSTRIAL_OFFSET_C]>>

RowPoints(parser, header, columns) ==
    IF parser = "parseNoaaCo2DailyCsv" THEN Co2RowPoints(columns)
    ELSE IF parser = "parseNsidcDailyExtentCsv" THEN NsidcRowPoints(columns)
    ELSE EcmwfRowPoints(header, columns)

\* the points a parser has pushed when its loop over the rows ends
RECURSIVE PushedPoints(_, _, _)
PushedPoints(parser, header, rows) ==
    IF rows = <<>> THEN <<>>
    ELSE RowPoints(parser, header, Head(rows)) \o PushedPoints(parser, header, Tail(rows))

Parsers == {"parseNoaaCo2DailyCsv", "parseNsidcDailyExtentCsv",
            "parseEcmwfClimatePulseGlobal2tDailyCsv"}

\* The rows of the files: the line of the spec's scenario, rows as the sources
\* publish them, and rows with a text value, too few columns or a date that
\* is no day.
Co2Rows ==
    {<<2024, 3, 15, 42210, 42205, 42180, 1000>>,
     <<2025, 1, 9, 2025, 42000>>, <<2025, 1, 10, 2025, 42100>>,
     <<2025, 1, 9, 2025, NotANumber>>, <<2025, 1, 9>>, <<2025, 2, 30, 2025, 42000>>}
NsidcRows ==
    {<<2025, 1, 9, 1320, 0, NotANumber>>, <<2025, 1, 10, 1330, 0, NotANumber>>,
     <<2025, 1, 9, NotANumber, 0, NotANumber>>, <<2025, 1, 9>>,
     <<2025, 2, 30, 1320, 0, NotANumber>>}
EcmwfRows ==
    {<<Today - 1, 50>>, <<Today, 60>>, <<Today, NotANumber>>, <<Today>>,
     <<InvalidDate, 50>>, <<NoSuchDay, 50>>}
EcmwfHeaders == {<<"date", "ano_91-20">>, <<"date", "2t">>}

RowsOf(parser) ==
    IF parser = "parseNoaaCo2DailyCsv" THEN Co2Rows
    ELSE IF parser = "parseNsidcDailyExtentCsv" THEN NsidcRows
    ELSE EcmwfRows
HeadersOf(parser) ==
    IF parser = "parseEcmwfClimatePulseGlobal2tDailyCsv" THEN EcmwfHeaders ELSE {<<>>}

InitParse ==
    /\ \E parser \in Parsers, n \in 0..MaxRows :
         \E header \in HeadersOf(parser), rows \in [1..n -> RowsOf(parser)] :
            csv = [parser |-> parser, header |-> header, rows |-> rows]
    /\ parserOut = Null
    /\ IdleRun /\ IdleFetch /\ IdleSanitize /\ IdleNormalize /\ IdleMerge /\ IdleVerify /\ IdleMore /\ IdleCli

\* the parser runs over the file and returns normalizePoints(points)
ApplyParse ==
    /\ parserOut = Null
    /\ \E r \in normalizePointsResults(PushedPoints(csv.parser, csv.header, csv.rows)) :
            parserOut' = [kind |-> "series", points |-> r]
    /\ UNCHANGED <<csv, runVars, fetchVars, sanVars, normVars, mergeVars, verifyVars, moreVars>>

NextParse == ApplyParse

SpecParse == InitParse /\ [][NextParse]_vars

-----------------------------------------------------------------------------
(* The parsers of the Climate Reanalyzer payload, and SpecReanalyzer: both   *)
(* applied to one bounded payload                                           *)
(*                                                                         *)
(* A payload is an array of rows or something else (an object); a row has a  *)
(* name, which is a year or the label of the climatology, and the list of    *)
(* its daily values.  A value is a whole number or NotANumber, for a token   *)
(* toFiniteNumber makes no number of; 0 stands for the number 0 and for     *)
(* null and the empty string as well, of which toFiniteNumber makes 0.       *)

MaxDays == 2         \* most values in a row of the payload

\* new Date().getUTCFullYear()
NowYear == YearDayFrom(2024, Today).year

\* lines 63-69: the date of the day of the year, or Null
dateFromYearAndDay(year, dayOfYear) ==
    IF year = NotANumber \/ dayOfYear = NotANumber \/ dayOfYear < 1 \/ dayOfYear > 366 THEN Null
    ELSE IF dayOfYear > DaysInYear(year) THEN Null
    ELSE [kind |-> "date", date |-> DaysBeforeYear(year) + dayOfYear - 1]

\* lines 265-271 and 328-334: the row is an object named by a year from 1940 to next year
IsYearRow(row) ==
    row.name.kind = "year" /\ row.name.year >= 1940 /\ row.name.year <= NowYear + 1

\* lines 302-306
reanalyzerRowValues(row) == row.data

\* lines 279-287: the length left when the values that are no number or are 0
\* are taken off the end
RECURSIVE EffectiveLength(_)
EffectiveLength(values) ==
    IF values = <<>> THEN 0
    ELSE IF ~IsFiniteNumber(values[Len(values)]) \/ values[Len(values)] = 0
         THEN EffectiveLength(SubSeq(values, 1, Len(values) - 1))
    ELSE Len(values)

\* lines 289-295: the points pushed for one row
AbsoluteRowPoints(row) ==
    LET values == row.data
        kept == SelectSeq([i \in 1..EffectiveLength(values) |-> i],
                          LAMBDA i : /\ IsFiniteNumber(values[i])
                                     /\ dateFromYearAndDay(row.name.year, i) # Null)
    IN [k \in 1..Len(kept) |->
           [date |-> dateFromYearAndDay(row.name.year, kept[k]).date, value |-> values[kept[k]]]]

\* line 345: Math.round((numeric - baseline) * 1000) / 1000; the values are whole
\* numbers here, and the difference of two is left as it is
AnomalyOf(numeric, baseline) == numeric - baseline

\* lines 336-347: the points pushed for one row
AnomalyRowPoints(row, baselineValues) ==
    LET values == reanalyzerRowValues(row)
        kept == SelectSeq([i \in 1..Len(values) |-> i],
                          LAMBDA i : /\ IsFiniteNumber(values[i])
                                     /\ i <= Len(baselineValues)
                                     /\ IsFiniteNumber(baselineValues[i])
                                     /\ dateFromYearAndDay(row.name.year, i) # Null)
    IN [k \in 1..Len(kept) |->
           [date |-> dateFromYearAndDay(row.name.year, kept[k]).date,
            value |-> AnomalyOf(values[kept[k]], baselineValues[kept[k]])]]

\* lines 262-296: the loop over the rows
RECURSIVE AbsolutePushed(_)
AbsolutePushed(rows) ==
    IF rows = <<>> THEN <<>>
    ELSE (IF IsYearRow(Head(rows)) THEN AbsoluteRowPoints(Head(rows)) ELSE <<>>)
         \o AbsolutePushed(Tail(rows))

\* lines 325-347: the loop over the rows
RECURSIVE AnomalyPushed(_, _)
AnomalyPushed(rows, baselineValues) ==
    IF rows = <<>> THEN <<>>
    ELSE (IF IsYearRow(Head(rows)) THEN AnomalyRowPoints(Head(rows), baselineValues) ELSE <<>>)
         \o AnomalyPushed(Tail(rows), baselineValues)

\* lines 259-300
parseReanalyzerDailyJson(payload) ==
    IF payload.kind # "array" THEN <<>> ELSE normalizePoints(AbsolutePushed(payload.rows))

\* lines 311-316: payload.find: the first row named by the label, or Null
BaselineRow(rows) ==
    LET idx == {i \in 1..Len(rows) : rows[i].name.kind = "label"}
    IN IF idx = {} THEN Null ELSE rows[CHOOSE i \in idx : \A j \in idx : i <= j]

\* lines 308-348
parseReanalyzerDailyAnomalyJson(payload) ==
    IF payload.kind # "array" THEN <<>>
    ELSE IF BaselineRow(payload.rows) = Null THEN <<>>
    ELSE IF reanalyzerRowValues(BaselineRow(payload.rows)) = <<>> THEN <<>>
    ELSE normalizePoints(AnomalyPushed(payload.rows,
                                       reanalyzerRowValues(BaselineRow(payload.rows))))

\* The payloads: rows named 2025, 2027 (a year the parsers skip) or 1991-2020,
\* of values 0, 15 and NotANumber; at most two rows.
RowNames == {[kind |-> "year", year |-> 2025], [kind |-> "year", year |-> 2027], [kind |-> "label"]}
RowData == UNION {[1..n -> {0, 15, NotANumber}] : n \in 0..MaxDays}
PayloadRows == [name : RowNames, data : RowData]
Payloads ==
    {[kind |-> "object"]} \cup
    {[kind |-> "array", rows |-> r] : r \in UNION {[1..n -> PayloadRows] : n \in 0..2}}

InitReanalyzer ==
    /\ csv \in Payloads
    /\ parserOut = Null
    /\ IdleRun /\ IdleFetch /\ IdleSanitize /\ IdleNormalize /\ IdleMerge /\ IdleVerify
    /\ IdleMore /\ IdleCli

\* lines 717 and 722: both parsers are given the payload
ApplyReanalyzer ==
    /\ parserOut = Null
    /\ parserOut' = [kind |-> "series",
                     absolute |-> parseReanalyzerDailyJson(csv),
                     anomaly |-> parseReanalyzerDailyAnomalyJson(csv)]
    /\ UNCHANGED <<csv, runVars, fetchVars, sanVars, normVars, mergeVars, verifyVars, moreVars>>

NextReanalyzer == ApplyReanalyzer

SpecReanalyzer == InitReanalyzer /\ [][NextReanalyzer]_vars

-----------------------------------------------------------------------------
(* The verifier, verify-climate-data.mjs, and SpecVerify: one run of it *)

\* lines 9-38, of which the model keeps two series
SERIES_RULES ==
    [global_surface_temperature |->
        [minValue |-> 5, maxValue |-> 40, maxAgeDays |-> 20,
         minPoints |-> 20000, minPointsLastYear |-> 300],
     global_sea_ice_extent |->
        [minValue |-> 0, maxValue |-> 60, maxAgeDays |-> 20,
         minPoints |-> 8000, minPointsLastYear |-> 300]]

\* Object.keys(SERIES_RULES), in the order of the object
RuleKeys == <<"global_surface_temperature", "global_sea_ice_extent">>

\* lines 45-49
parseDailyIsoToUtc(dateIso) ==
    IF ~MatchesDatePattern(dateIso) THEN Null ELSE parseIsoDateToUtc(dateIso)

\* points.length
SeriesLength(ser) == ser.old + ser.recent + Len(ser.tail)

\* the date and the value of the last of the earlier points
PrefixLastDate(ser) == IF ser.recent > 0 THEN Today - 2 ELSE Today - 366
PrefixValue(key) == IF key = "global_surface_temperature" THEN 15 ELSE 18

\* lines 76-78, and the loop of lines 80-120 over the earlier points
LoopStart(key, ser) ==
    IF ser.old + ser.recent = 0
    THEN [previousTs |-> Null, lastPoint |-> Null, pointsLastYear |-> 0, errors |-> <<>>]
    ELSE [previousTs |-> [kind |-> "time", t |-> PrefixLastDate(ser)],
          lastPoint |-> [date |-> PrefixLastDate(ser), value |-> PrefixValue(key),
                         ts |-> PrefixLastDate(ser)],
          pointsLastYear |-> ser.recent, errors |-> <<>>]

\* lines 81-119: one turn of the loop
VerifyPoint(key, st, point) ==
    LET rules == SERIES_RULES[key]
        ts == parseDailyIsoToUtc(point.date)
        fail(kind) == [st EXCEPT !.errors = Append(@, [kind |-> kind, key |-> key])]
    IN IF ts = Null THEN fail("invalid date")
       ELSE IF ~IsFiniteNumber(point.value) THEN fail("non-numeric value")
       ELSE IF point.value < rules.minValue \/ point.value > rules.maxValue
            THEN fail("out-of-range value")
       ELSE IF st.previousTs # Null /\ ts.t <= st.previousTs.t
            THEN fail("dates are not strictly increasing")
       ELSE IF ts.t > Today
            THEN [st EXCEPT !.previousTs = ts,
                            !.errors = Append(@, [kind |-> "future date", key |-> key])]
       ELSE [st EXCEPT !.previousTs = ts,
                       !.pointsLastYear = IF ts.t >= Today - 365 THEN @ + 1 ELSE @,
                       !.lastPoint = [date |-> point.date, value |-> point.value, ts |-> ts.t]]

RECURSIVE VerifyLoop(_, _, _)
VerifyLoop(key, st, tail) ==
    IF tail = <<>> THEN st ELSE VerifyLoop(key, VerifyPoint(key, st, Head(tail)), Tail(tail))

\* lines 55-62: payload.summary[key], or Null
getSummaryEntry(payload, key) == payload.summary[key]

SummaryErrors_Mutant(key, length, lastPoint, summaryEntry) ==
    (IF summaryEntry.latestDate # lastPoint.date
     THEN <<[kind |-> "summary.latestDate", key |-> key]>> ELSE <<>>)
    \o (IF ~IsFiniteNumber(summaryEntry.latestValue) \/ summaryEntry.latestValue # lastPoint.value
        THEN <<[kind |-> "summary.latestValue", key |-> key]>> ELSE <<>>)

\* lines 142-154: the summary entry against the series; values are whole
\* numbers here, so "differs by more than 1e-9" is "differs"
SummaryErrors(key, length, lastPoint, summaryEntry) ==
    (IF summaryEntry.points # length
     THEN <<[kind |-> "summary.points", key |-> key]>> ELSE <<>>)
    \o (IF summaryEntry.latestDate # lastPoint.date
        THEN <<[kind |-> "summary.latestDate", key |-> key]>> ELSE <<>>)
    \o (IF ~IsFiniteNumber(summaryEntry.latestValue) \/ summaryEntry.latestValue # lastPoint.value
        THEN <<[kind |-> "summary.latestValue", key |-> key]>> ELSE <<>>)

\* lines 64-155: the errors and the warnings verifySeries adds for one series
verifySeries(key, ser, payload) ==
    LET rules == SERIES_RULES[key]
        none == <<>>
    IN IF ser.kind # "array"
       THEN [errors |-> <<[kind |-> "series is not an array", key |-> key]>>, warnings |-> none]
       ELSE
       LET few == IF SeriesLength(ser) < rules.minPoints
                  THEN <<[kind |-> "too few points", key |-> key]>> ELSE none
           st == VerifyLoop(key, LoopStart(key, ser), ser.tail)
       IN IF st.lastPoint = Null
          THEN [errors |-> few \o st.errors \o <<[kind |-> "no valid points", key |-> key]>>,
                warnings |-> none]
          ELSE
          LET stale == IF Today - st.lastPoint.ts > rules.maxAgeDays
                       THEN <<[kind |-> "stale latest point", key |-> key]>> ELSE none
              sparse == IF st.pointsLastYear < rules.minPointsLastYear
                        THEN <<[kind |-> "sparse recent data", key |-> key]>> ELSE none
              summaryEntry == getSummaryEntry(payload, key)
          IN IF summaryEntry = Null
             THEN [errors |-> few \o st.errors \o stale,
                   warnings |-> sparse \o <<[kind |-> "missing summary entry", key |-> key]>>]
             ELSE [errors |-> few \o st.errors \o stale
                              \o SummaryErrors(key, SeriesLength(ser), st.lastPoint, summaryEntry),
                   warnings |-> sparse]

\* lines 178-180: verifySeries for every key of SERIES_RULES
RECURSIVE VerifyAll(_, _, _)
VerifyAll(payload, keys, acc) ==
    IF keys = <<>> THEN acc
    ELSE LET r == verifySeries(Head(keys), payload.series[Head(keys)], payload)
         IN VerifyAll(payload, Tail(keys),
                      [errors |-> acc.errors \o r.errors, warnings |-> acc.warnings \o r.warnings])

\* lines 200-203: main() threw: the message is printed and the exit code is 1.
\* A printed line is the record of what it says.
Thrown(message) ==
    [threw |-> TRUE, errors |-> <<>>, warnings |-> <<>>, exit |-> 1,
     printed |-> <<[stream |-> "error", line |-> [kind |-> message]]>>]

Lines(stream, header, items) ==
    IF items = <<>> THEN <<>>
    ELSE <<[stream |-> stream, line |-> [kind |-> header]]>>
         \o [k \in 1..Len(items) |-> [stream |-> stream, line |-> items[k]]]

ExitCode_Mutant(errors, warnings) == IF errors # <<>> \/ warnings # <<>> THEN 1 ELSE 0

\* lines 189-197: process.exit(1) when errors were collected
ExitCode(errors, warnings) == IF errors # <<>> THEN 1 ELSE 0

\* lines 157-203: one run of the verifier on the file
main(file) ==
    IF file.kind = "unreadable" THEN Thrown("cannot read or parse the file")
    ELSE IF file.kind # "object" THEN Thrown("Dataset root is not an object.")
    ELSE
    LET first == IF file.generatedAtIso # "valid"
                 THEN <<[kind |-> "generatedAtIso is missing or invalid"]>> ELSE <<>>
    IN IF file.series = Null THEN Thrown("series is missing or invalid.")
       ELSE
       LET r == VerifyAll(file, RuleKeys, [errors |-> first, warnings |-> <<>>])
       IN [threw |-> FALSE, errors |-> r.errors, warnings |-> r.warnings,
           exit |-> ExitCode(r.errors, r.warnings),
           printed |-> Lines("warn", "Data verification warnings:", r.warnings)
                       \o Lines("error", "Data verification failed:", r.errors)
                       \o (IF r.errors = <<>>
                           THEN <<[stream |-> "log", line |-> [kind |-> "Data verification passed"]]>>
                           ELSE <<>>)]

\* The files given to the verifier.  The global surface temperature series
\* varies in its earlier points, its last points and its summary entry; the
\* sea-ice series are whole and fresh, the global one equal or not to the
\* sum of the other two on their last date.
TailPoints == [date : {Today - 1, Today, Today + 1, InvalidDate}, value : {15, 50, NotANumber}]
Tails == UNION {[1..n -> TailPoints] : n \in 0..MaxLen}
TemperatureSeries ==
    {[kind |-> "notArray"]} \cup
    {[kind |-> "array", old |-> c.old, recent |-> c.recent, tail |-> t] :
        c \in {[old |-> 0, recent |-> 0], [old |-> 19700, recent |-> 300],
                [old |-> 20000, recent |-> 0]},
        t \in Tails}
SeaIceSeries(value) ==
    [kind |-> "array", old |-> 7700, recent |-> 300,
     tail |-> <<[date |-> Today - 1, value |-> value]>>]
SummaryEntries(ser) ==
    {Null} \cup
    [points : IF ser.kind = "array" THEN {SeriesLength(ser), SeriesLength(ser) + 1} ELSE {0},
     latestDate : {Today - 1, Today}, latestValue : {15, 16}]
Dataset(generatedAtIso, temperature, entry, ice) ==
    [kind |-> "object", generatedAtIso |-> generatedAtIso,
     series |-> [global_surface_temperature |-> temperature,
                 global_sea_ice_extent |-> SeaIceSeries(ice),
                 arctic_sea_ice_extent |-> SeaIceSeries(13),
                 antarctic_sea_ice_extent |-> SeaIceSeries(5)],
     summary |-> [global_surface_temperature |-> entry,
                  global_sea_ice_extent |->
                      [points |-> 8001, latestDate |-> Today - 1, latestValue |-> ice]]]
BrokenFiles ==
    {[kind |-> "unreadable"], [kind |-> "array"],
     [kind |-> "object", generatedAtIso |-> "valid", series |-> Null, summary |-> Null]}

InitVerify ==
    /\ \/ artifact \in BrokenFiles
       \/ \E g \in {"valid", "invalid"}, t \in TemperatureSeries, ice \in {18, 20} :
            \E e \in SummaryEntries(t) : artifact = Dataset(g, t, e, ice)
    /\ report = Null
    /\ IdleRun /\ IdleFetch /\ IdleSanitize /\ IdleNormalize /\ IdleMerge /\ IdleParse /\ IdleMore /\ IdleCli

RunVerifier ==
    /\ report = Null
    /\ report' = main(artifact)
    /\ UNCHANGED <<artifact, runVars, fetchVars, sanVars, normVars, mergeVars, parseVars, moreVars>>

NextVerify == RunVerifier

SpecVerify == InitVerify /\ [][NextVerify]_vars

-----------------------------------------------------------------------------
(* mergeSeaIceSeries, and SpecMerge: the merge of two sanitized series *)

\* lines 601-602 and 608-609: map.get(date) of new Map(series.map(...)):
\* the value of the last point of that date, or Null (undefined)
MapGet(ser, date) ==
    LET idx == {i \in 1..Len(ser) : ser[i].date = date}
    IN IF idx = {} THEN Null
       ELSE [kind |-> "value", v |-> ser[CHOOSE i \in idx : \A j \in idx : j <= i].value]

\* line 604: the keys of both maps, each once, the north's first
MergeDates(n, s) ==
    LET firstOf(ser) == SelectSeq([i \in 1..Len(ser) |-> [at |-> i, date |-> ser[i].date]],
                                  LAMBDA e : \A j \in 1..Len(ser) :
                                                ser[j].date = e.date => e.at <= j)
        nd == firstOf(n)
        sd == SelectSeq(firstOf(s), LAMBDA e : MapGet(n, e.date) = Null)
    IN [k \in 1..Len(nd) + Len(sd) |-> IF k <= Len(nd) THEN nd[k].date ELSE sd[k - Len(nd)].date]

MergedValue_Mutant(northValue, southValue) == northValue

\* line 613
MergedValue(northValue, southValue) == northValue + southValue

\* lines 600-618
mergeSeaIceSeries(n, s) ==
    LET dates == MergeDates(n, s)
        both == SelectSeq(dates, LAMBDA d : MapGet(n, d) # Null /\ MapGet(s, d) # Null)
        mergedPoints == [k \in 1..Len(both) |->
                            [date |-> both[k],
                             value |-> MergedValue(MapGet(n, both[k]).v, MapGet(s, both[k]).v)]]
    IN normalizePoints(mergedPoints)

\* The series given to the merge are sanitized ones (lines 772-783).
SeaIceLimits == [minValue |-> 1, maxValue |-> 2, maxAgeDays |-> MaxAgeRange]
SanitizedSeries == {sanitizeSeries(p, SeaIceLimits) : p \in PointLists}

InitMerge ==
    /\ north \in SanitizedSeries /\ south \in SanitizedSeries
    /\ merged = Null
    /\ IdleRun /\ IdleFetch /\ IdleSanitize /\ IdleNormalize /\ IdleParse /\ IdleVerify /\ IdleMore /\ IdleCli

ApplyMerge ==
    /\ merged = Null
    /\ merged' = [kind |-> "series", points |-> mergeSeaIceSeries(north, south)]
    /\ UNCHANGED <<north, south, runVars, fetchVars, sanVars, normVars, parseVars, verifyVars, moreVars>>

NextMerge == ApplyMerge

SpecMerge == InitMerge /\ [][NextMerge]_vars

-----------------------------------------------------------------------------
(* SpecNormalize: normalizePoints on bounded inputs, and on its own result *)

NormDates == {Today - 1, Today, InvalidDate, NoSuchDay}
NormValues == {1, 2, NotANumber}
NormPoints == [date : NormDates, value : NormValues]
NormLists == UNION {[1..n -> NormPoints] : n \in 0..MaxNormLen}

InitNormalize ==
    /\ normIn \in NormLists
    /\ normOut = Null /\ normAgain = Null
    /\ IdleRun /\ IdleFetch /\ IdleSanitize /\ IdleMerge /\ IdleParse /\ IdleVerify /\ IdleMore /\ IdleCli

\* normalizePoints(normIn)
ApplyNormalize ==
    /\ normOut = Null
    /\ \E r \in normalizePointsResults(normIn) : normOut' = [kind |-> "series", points |-> r]
    /\ UNCHANGED <<normIn, normAgain, runVars, fetchVars, sanVars, mergeVars, parseVars, verifyVars, moreVars>>

\* normalizePoints(normalizePoints(normIn))
ApplyNormalizeAgain ==
    /\ normOut # Null /\ normAgain = Null
    /\ \E r \in normalizePointsResults(normOut.points) :
            normAgain' = [kind |-> "series", points |-> r]
    /\ UNCHANGED <<normIn, normOut, runVars, fetchVars, sanVars, mergeVars, parseVars, verifyVars, moreVars>>

NextNormalize == ApplyNormalize \/ ApplyNormalizeAgain

SpecNormalize == InitNormalize /\ [][NextNormalize]_vars

-----------------------------------------------------------------------------
(* The bundled anomaly derivation, src/data/bundled-sample.ts, and          *)
(* SpecAnomaly: climatologyByDayOfYear and deriveAnomalySeries on a series  *)
(*                                                                         *)
(* A date is the record [y, m, d] of the three numbers of "YYYY-MM-DD".     *)
(* A value is a double: [kind |-> "num", mag |-> its magnitude in units of  *)
(* 2^-49], or NaN.  The values of a series lie in [8, 16) (magnitudes of    *)
(* 53 bits), so every sum of the climatology is a whole number of units     *)
(* and the arithmetic of the doubles is the arithmetic of these whole       *)
(* numbers with IEEE rounding to 53 significant bits, ties to even.  A      *)
(* magnitude is a list of four limbs of 20 bits, the least significant      *)
(* first.  An anomaly, Math.round(x * 1000) / 1000, is the whole number     *)
(* Math.round returned: the value in thousandths.                           *)

Limb == 1048576      \* 2^20

NaN == [kind |-> "nan"]

Double(mag) == [kind |-> "num", mag |-> mag]

BigZero == <<0, 0, 0, 0>>

\* the limbs after the carries
BigCarry(x) ==
    LET y2 == x[2] + (x[1] \div Limb)
        y3 == x[3] + (y2 \div Limb)
    IN <<x[1] % Limb, y2 % Limb, y3 % Limb, x[4] + (y3 \div Limb)>>

BigAdd(a, b) == BigCarry([i \in 1..4 |-> a[i] + b[i]])

BigTimes(a, k) == BigCarry([i \in 1..4 |-> a[i] * k])

BigLess(a, b) ==
    \E i \in 1..4 : a[i] < b[i] /\ \A j \in (i + 1)..4 : a[j] = b[j]

\* a - b, for a >= b
BigMinus(a, b) ==
    LET d1 == a[1] - b[1]
        d2 == a[2] - b[2] - (IF d1 < 0 THEN 1 ELSE 0)
        d3 == a[3] - b[3] - (IF d2 < 0 THEN 1 ELSE 0)
        d4 == a[4] - b[4] - (IF d3 < 0 THEN 1 ELSE 0)
    IN <<d1 % Limb, d2 % Limb, d3 % Limb, d4>>

\* the quotient and the remainder of a by the small number n
BigDivide(a, n) ==
    LET t4 == a[4]
        t3 == (t4 % n) * Limb + a[3]
        t2 == (t3 % n) * Limb + a[2]
        t1 == (t2 % n) * Limb + a[1]
    IN [q |-> <<t1 \div n, t2 \div n, t3 \div n, t4 \div n>>, r |-> t1 % n]

RECURSIVE LimbBits(_)
LimbBits(n) == IF n = 0 THEN 0 ELSE 1 + LimbBits(n \div 2)

\* the number of significant bits
BitLength(a) ==
    IF a[4] > 0 THEN 60 + LimbBits(a[4])
    ELSE IF a[3] > 0 THEN 40 + LimbBits(a[3])
    ELSE IF a[2] > 0 THEN 20 + LimbBits(a[2])
    ELSE LimbBits(a[1])

RECURSIVE PowerOfTwo(_)
PowerOfTwo(n) == IF n = 0 THEN 1 ELSE 2 * PowerOfTwo(n - 1)

\* IEEE 754 binary64: the nearest number of 53 significant bits, ties to even
RoundToDouble(a) ==
    IF BitLength(a) <= 53 THEN a
    ELSE LET p == PowerOfTwo(BitLength(a) - 53)
             rest == a[1] % p
             down == <<a[1] - rest, a[2], a[3], a[4]>>
             odd == (a[1] \div p) % 2 = 1
         IN IF 2 * rest > p \/ (2 * rest = p /\ odd) THEN BigAdd(down, <<p, 0, 0, 0>>)
            ELSE down

\* lines 130, 311: bucket.sum += value
DoubleAdd(sum, value) == RoundToDouble(BigAdd(sum, value))

\* lines 137, 318: bucket.sum / bucket.count; the quotient has at most 53 bits
DoubleDivide(sum, count) ==
    LET d == BigDivide(sum, count)
        odd == d.q[1] % 2 = 1
    IN IF 2 * d.r > count \/ (2 * d.r = count /\ odd) THEN BigAdd(d.q, <<1, 0, 0, 0>>)
       ELSE d.q

\* Math.round(x) of the positive or negative x of magnitude a units of 2^-49:
\* the nearest whole number, a tie going up
MathRound(negative, a) ==
    LET whole == (a[3] + a[4] * Limb) \div 512
        rest == <<a[1], a[2], a[3] % 512, 0>>
        half == <<0, 0, 256, 0>>
    IN IF negative
       THEN (IF BigLess(half, rest) THEN 0 - (whole + 1) ELSE 0 - whole)
       ELSE (IF BigLess(rest, half) THEN whole ELSE whole + 1)

RoundedDifference_Mutant(value, baseline) ==
    IF BigLess(value, baseline) THEN 0 - 1
    ELSE IF BigLess(baseline, value) THEN 1 ELSE 0

\* line 153: Math.round((value - baseline) * 1000), the anomaly in thousandths;
\* the difference of two doubles of [8, 16) is a double
RoundedDifference(value, baseline) ==
    IF BigLess(value, baseline)
    THEN MathRound(TRUE, RoundToDouble(BigTimes(BigMinus(baseline, value), 1000)))
    ELSE MathRound(FALSE, RoundToDouble(BigTimes(BigMinus(value, baseline), 1000)))

\* lines 107-118: the day of the year of a date, or Null for a string that names no day
dayOfYearFromIso(dateIso) ==
    IF dateIso.m < 1 \/ dateIso.m > 12 \/ dateIso.d < 1 THEN Null
    ELSE IF dateIso.d > DaysInMonth(dateIso.y, dateIso.m) THEN Null
    ELSE [kind |-> "doy", doy |-> DaysBeforeMonth(dateIso.y, dateIso.m) + dateIso.d]

\* lines 123-128: the points of the loop that go into a bucket
InBaseline(point, baselineStartYear, baselineEndYear) ==
    /\ ~(point.date.y < baselineStartYear \/ point.date.y > baselineEndYear)
    /\ dayOfYearFromIso(point.date) # Null
    /\ point.value # NaN

\* lines 129-132: the buckets after a point of the baseline went into its bucket
BucketsWith(sums, point) ==
    LET doy == dayOfYearFromIso(point.date).doy
        bucket == IF doy \in DOMAIN sums THEN sums[doy] ELSE [sum |-> BigZero, count |-> 0]
        after == [sum |-> DoubleAdd(bucket.sum, point.value.mag), count |-> bucket.count + 1]
    IN [k \in DOMAIN sums \cup {doy} |-> IF k = doy THEN after ELSE sums[k]]

\* lines 135-139: the map from the days of the year that have a bucket to their mean
Means(sums) == [doy \in DOMAIN sums |-> Double(DoubleDivide(sums[doy].sum, sums[doy].count))]

\* lines 146-150: the points deriveAnomalySeries does not skip
HasBaseline(point, clim) ==
    /\ dayOfYearFromIso(point.date) # Null
    /\ dayOfYearFromIso(point.date).doy \in DOMAIN clim
    /\ point.value # NaN

\* lines 142-158
deriveAnomalySeries(points, clim) ==
    LET kept == SelectSeq(points, LAMBDA p : HasBaseline(p, clim))
    IN [i \in 1..Len(kept) |->
           [date |-> kept[i].date,
            value |-> RoundedDifference(kept[i].value.mag,
                                        clim[dayOfYearFromIso(kept[i].date).doy].mag)]]

\* lines 191-192: the baseline window of the bundled series
BaselineStartYear == 1991
BaselineEndYear == 2020

\* the values of the model's series: 14.35 (line 182, the base of the bundled global
\* surface temperature), 15 and NaN
AnomalyValues == {Double(<<209715, 209715, 7347, 0>>), Double(<<0, 0, 7680, 0>>)}

\* the days of the baseline window the model's series have, in order: every
\* 1 January and every 31 December
WindowDays ==
    [i \in 1..2 * (BaselineEndYear - BaselineStartYear + 1) |->
        [y |-> BaselineStartYear + ((i - 1) \div 2),
         m |-> IF i % 2 = 1 THEN 1 ELSE 12,
         d |-> IF i % 2 = 1 THEN 1 ELSE 31]]

WindowDates == {WindowDays[i] : i \in DOMAIN WindowDays}

\* dates outside the window: the years next to it, a 29 February, a 31 December of a
\* leap year, and "2023-13-45"
OutsideDates ==
    {[y |-> 1990, m |-> 12, d |-> 31], [y |-> 2021, m |-> 1, d |-> 1],
     [y |-> 2024, m |-> 2, d |-> 29], [y |-> 2024, m |-> 12, d |-> 31],
     [y |-> 2023, m |-> 13, d |-> 45]}

\* the series an input stands for: the value `inside` on the days of the window,
\* but for the days in `changed`, which are missing or have the value `change`,
\* followed by the points of `outside`
SeriesOf(input) ==
    SelectSeq([i \in DOMAIN WindowDays |->
                  [date |-> WindowDays[i],
                   value |-> IF WindowDays[i] \in input.changed THEN input.change
                             ELSE input.inside]],
              LAMBDA point : point.value # Null)
    \o input.outside

\* the days of the window that may differ from the others: the first and the last
\* 1 January and the last 31 December
ChangedDates ==
    {[y |-> BaselineStartYear, m |-> 1, d |-> 1], [y |-> BaselineEndYear, m |-> 1, d |-> 1],
     [y |-> BaselineEndYear, m |-> 12, d |-> 31]}

RECURSIVE AtMost(_, _)
\* the subsets of at most n elements
AtMost(S, n) ==
    IF n = 0 THEN {{}} ELSE LET less == AtMost(S, n - 1) IN less \cup {a \cup {x} : a \in less, x \in S}

AnomalyInputs ==
    {[inside |-> v, changed |-> c, change |-> w, outside |-> o] :
        v \in AnomalyValues,
        c \in AtMost(ChangedDates, MaxChanged),
        w \in {Null, NaN} \cup AnomalyValues,
        o \in {<<>>} \cup {<<[date |-> d, value |-> u]>> :
                              d \in OutsideDates, u \in AnomalyValues \cup {NaN}}}

InitAnomaly ==
    /\ anomIn \in {input \in AnomalyInputs :
                      /\ input.change # input.inside
                      /\ input.changed = {} => input.change = Null}
    /\ buckets = Null
    /\ climatology = Null
    /\ anomalies = Null
    /\ IdleRun /\ IdleFetch /\ IdleSanitize /\ IdleNormalize /\ IdleMerge /\ IdleParse
    /\ IdleVerify /\ IdleCli /\ IdleLoad

\* lines 191-192, 120-121: climatologyByDayOfYear is called
CallClimatology ==
    /\ anomIn # Null
    /\ buckets = Null
    /\ climatology = Null
    /\ buckets' = [sums |-> <<>>, done |-> 0]
    /\ UNCHANGED <<anomIn, climatology, anomalies, updaterVars, cliVars, loadVars>>

\* lines 122-133: one turn of the loop over the points
ClimatologyLoop ==
    /\ buckets # Null
    /\ buckets.done < Len(SeriesOf(anomIn))
    /\ LET point == SeriesOf(anomIn)[buckets.done + 1]
       IN buckets' = [sums |-> IF InBaseline(point, BaselineStartYear, BaselineEndYear)
                              THEN BucketsWith(buckets.sums, point)
                              ELSE buckets.sums,
                      done |-> buckets.done + 1]
    /\ UNCHANGED <<anomIn, climatology, anomalies, updaterVars, cliVars, loadVars>>

\* lines 135-139: climatologyByDayOfYear returns
ClimatologyReturn ==
    /\ buckets # Null
    /\ buckets.done = Len(SeriesOf(anomIn))
    /\ climatology' = Means(buckets.sums)
    /\ buckets' = Null
    /\ UNCHANGED <<anomIn, anomalies, updaterVars, cliVars, loadVars>>

\* lines 193-194
ApplyDeriveAnomaly ==
    /\ climatology # Null
    /\ anomalies = Null
    /\ anomalies' = deriveAnomalySeries(SeriesOf(anomIn), climatology)
    /\ UNCHANGED <<anomIn, buckets, climatology, updaterVars, cliVars, loadVars>>

NextAnomaly == CallClimatology \/ ClimatologyLoop \/ ClimatologyReturn \/ ApplyDeriveAnomaly

SpecAnomaly == InitAnomaly /\ [][NextAnomaly]_vars

-----------------------------------------------------------------------------
(* parseCliOptions, and SpecCli: parseCliOptions applied to bounded arguments *)
(*                                                                         *)
(* An argument is a record: [name] for a word, [name, raw] for             *)
(* "--interval-minutes=<raw>", where raw is Number(rawValue) in tenths of  *)
(* a minute, or NotANumber.                                                *)

Flag(name) == [name |-> name]
IntervalArg(raw) == [name |-> "--interval-minutes=", raw |-> raw]

InvalidInterval(arg) == [kind |-> "error", error |-> "invalid-interval", arg |-> arg]
UnknownArgument(arg) == [kind |-> "error", error |-> "unknown-argument", arg |-> arg]

\* line 652: Number.isFinite(parsed) and parsed >= 1
AcceptsInterval(parsed) == parsed # NotANumber /\ ~(parsed < 10)

\* lines 639-659: one turn of the loop: the options after the argument, or the error thrown
OptionsWith(sofar, arg) ==
    IF arg.name = "--watch" THEN [sofar EXCEPT !.watch = TRUE]
    ELSE IF arg.name = "--help" \/ arg.name = "-h" THEN [sofar EXCEPT !.showHelp = TRUE]
    ELSE IF arg.name = "--interval-minutes="
        THEN (IF AcceptsInterval(arg.raw) THEN [sofar EXCEPT !.intervalMinutes = arg.raw]
              ELSE InvalidInterval(arg))
    ELSE UnknownArgument(arg)

RECURSIVE OptionsLoop(_, _, _)
\* lines 638-660: the loop over the arguments, from the i-th on
OptionsLoop(sofar, args, i) ==
    IF i > Len(args) \/ sofar.kind = "error" THEN sofar
    ELSE OptionsLoop(OptionsWith(sofar, args[i]), args, i + 1)

\* lines 633-667: the options, or the error thrown
parseCliOptions(args) ==
    OptionsLoop([kind |-> "options", watch |-> FALSE,
                 intervalMinutes |-> DEFAULT_INTERVAL_MINUTES, showHelp |-> FALSE], args, 1)

\* the raw values of the model: "abc", -1, 0, 0.5, 1, 2.5
RawValues == {NotANumber, 0 - 10, 0, 5, 10, 25}

Arguments ==
    {Flag("--watch"), Flag("--help"), Flag("-h"), Flag("--bogus")}
        \cup {IntervalArg(raw) : raw \in RawValues}

RECURSIVE ListsUpTo(_, _)
\* the lists of at most n elements of S
ListsUpTo(S, n) ==
    IF n = 0 THEN {<<>>}
    ELSE LET shorter == ListsUpTo(S, n - 1)
         IN shorter \cup {Append(l, x) : l \in shorter, x \in S}

InitCli ==
    /\ argv \in ListsUpTo(Arguments, MaxArgs)
    /\ options = Null
    /\ helpPrinted = FALSE
    /\ IdleRun /\ IdleFetch /\ IdleSanitize /\ IdleLibrary

\* line 979
ApplyParseCli ==
    /\ options = Null
    /\ options' = parseCliOptions(argv)
    /\ UNCHANGED <<argv, helpPrinted, updaterVars, anomVars, loadVars>>

NextCli == ApplyParseCli

SpecCli == InitCli /\ [][NextCli]_vars

-----------------------------------------------------------------------------
(* The dashboard's data loader, src/data/adapter.ts and src/data/loader.ts, *)
(* and SpecLoad: one call of loadRuntimeDataSource                          *)
(*                                                                         *)
(* Of the eighteen metric keys the model keeps three: two that the loader   *)
(* reads and fetches, and one, the sea level, that is a metric key but is   *)
(* not among the loader's SERIES_KEYS and has no live feed.  A partial      *)
(* bundle (Partial<ClimateSeriesBundle>) is a function from the keys it     *)
(* has.                                                                     *)

\* bundled-sample.ts, lines 233-252
CLIMATE_METRIC_KEYS == {"global_surface_temperature", "atmospheric_co2", "global_mean_sea_level"}

\* lines 389-405
SERIES_KEYS == {"global_surface_temperature", "atmospheric_co2"}

\* bundled-sample.ts, lines 179-231: the generated series, none of them empty
createBundledClimateSeries ==
    [key \in CLIMATE_METRIC_KEYS |-> <<[date |-> Today - 1, value |-> 1], [date |-> Today, value |-> 2]>>]

\* lines 274-292 and 439-452, for a list of at most one point: the point is kept
\* when its date has the form YYYY-MM-DD and its value is finite
NormalizeOne(points) ==
    SelectSeq(points, LAMBDA p : MatchesDatePattern(p.date) /\ p.value # NotANumber)

\* lines 312-324
mergeSeriesWithBundled(input) ==
    [key \in CLIMATE_METRIC_KEYS |->
        IF key \notin DOMAIN input \/ input[key] = <<>> THEN createBundledClimateSeries[key]
        ELSE IF NormalizeOne(input[key]) # <<>> THEN NormalizeOne(input[key])
        ELSE createBundledClimateSeries[key]]

\* lines 341-344
LiveCount(input) ==
    Cardinality({key \in CLIMATE_METRIC_KEYS : key \in DOMAIN input /\ Len(input[key]) > 0})

\* line 346
SourceMode(liveCount) ==
    IF liveCount = Cardinality(CLIMATE_METRIC_KEYS) THEN "live"
    ELSE IF liveCount > 0 THEN "mixed" ELSE "bundled"

\* lines 335-354
createDataSourceFromSeries(input, warnings, updatedAtIso) ==
    [sourceMode |-> SourceMode(LiveCount(input)),
     series |-> mergeSeriesWithBundled(input),
     warnings |-> warnings,
     updatedAtIso |-> updatedAtIso]

\* lines 522-531: the items of a series of the file that make a point; a series
\* that is no array gives none
ReadPoints(rawSeries) ==
    IF rawSeries = Null THEN <<>>
    ELSE SelectSeq(rawSeries.items,
                   LAMBDA item : MatchesDatePattern(item.date) /\ item.value # NotANumber)

\* lines 515-539: the series read from the file's payload, or Null
readGeneratedSeries(payload) ==
    IF payload.kind # "object" \/ payload.series = Null THEN Null
    ELSE [key \in {k \in SERIES_KEYS : ReadPoints(payload.series.of[k]) # <<>>} |->
             NormalizeOne(ReadPoints(payload.series.of[key]))]

\* lines 541-558: the data source made from the local file, or Null
loadGeneratedLocalDataSource(file) ==
    IF file.kind = "unavailable" THEN Null
    ELSE IF readGeneratedSeries(file) = Null THEN Null
    ELSE [input |-> readGeneratedSeries(file),
          source |-> createDataSourceFromSeries(
                        readGeneratedSeries(file), <<>>,
                        IF file.generatedAtIso = "valid" THEN "generatedAtIso" ELSE "now")]

\* what a series of the file can be: no array, an empty array, an array of one
\* item that has no date, of one item that has no number, of one point
RawSeries ==
    {Null} \cup [kind : {"array"},
                 items : {<<>>, <<[date |-> InvalidDate, value |-> 15]>>,
                          <<[date |-> Today - 1, value |-> NotANumber]>>,
                          <<[date |-> Today - 1, value |-> 15]>>}]

\* what the fetch of the local file can give: nothing (no file, an HTTP error, text
\* that is no JSON, a falsy value), an array, an object
LocalFiles ==
    {[kind |-> "unavailable"], [kind |-> "array"]}
        \cup [kind : {"object"}, series : {Null} \cup [kind : {"record"}, of : [CLIMATE_METRIC_KEYS -> RawSeries]],
              generatedAtIso : {"valid", "invalid"}]

\* what a loader of a live feed can come to: it rejects, it finds no usable
\* series (null), it returns a series
LoaderResults ==
    {[status |-> "rejected"], [status |-> "fulfilled", value |-> Null],
     [status |-> "fulfilled",
      value |-> [kind |-> "series", points |-> <<[date |-> Today, value |-> 16]>>]]}

Unavailable(name) == [feed |-> name]

\* lines 988-1090, of which the model keeps the two feeds of its keys: the live
\* series and the warnings
LiveSeries(results) ==
    [key \in {k \in SERIES_KEYS : results[k].status = "fulfilled" /\ results[k].value # Null} |->
        results[key].value.points]

LiveWarnings(results) ==
    (IF "global_surface_temperature" \in DOMAIN LiveSeries(results) THEN <<>>
     ELSE <<Unavailable("Global Surface Temperature")>>)
    \o (IF "atmospheric_co2" \in DOMAIN LiveSeries(results) THEN <<>>
        ELSE <<Unavailable("Mauna Loa CO2")>>)

LocalMissing == [feed |-> "Local generated real-data file"]

InitLoad ==
    /\ localFile \in LocalFiles
    /\ loadPc = "local"
    /\ liveResults = Null
    /\ dataSource = Null
    /\ IdleRun /\ IdleFetch /\ IdleSanitize /\ IdleNormalize /\ IdleMerge /\ IdleParse
    /\ IdleVerify /\ IdleCli /\ IdleAnomaly

\* lines 971-972: the local file gave a data source, which is returned
ReturnLocal ==
    /\ loadPc = "local"
    /\ loadGeneratedLocalDataSource(localFile) # Null
    /\ dataSource' = loadGeneratedLocalDataSource(localFile)
    /\ loadPc' = "done"
    /\ UNCHANGED <<localFile, liveResults, updaterVars, anomVars, cliVars>>

\* lines 971-986: the local file gave none: the loaders of the live feeds are called
CallLoaders ==
    /\ loadPc = "local"
    /\ loadGeneratedLocalDataSource(localFile) = Null
    /\ loadPc' = "remote"
    /\ UNCHANGED <<localFile, liveResults, dataSource, updaterVars, anomVars, cliVars>>

\* lines 977-1099: the loaders settled
ReturnLive ==
    /\ loadPc = "remote"
    /\ \E results \in [SERIES_KEYS -> LoaderResults] :
          /\ liveResults' = results
          /\ dataSource' = [input |-> LiveSeries(results),
                            source |-> createDataSourceFromSeries(
                                          LiveSeries(results),
                                          <<LocalMissing>> \o LiveWarnings(results), "now")]
    /\ loadPc' = "done"
    /\ UNCHANGED <<localFile, updaterVars, anomVars, cliVars>>

NextLoad == ReturnLocal \/ CallLoaders \/ ReturnLive

SpecLoad == InitLoad /\ [][NextLoad]_vars

-----------------------------------------------------------------------------
(* updateOnce and run *)

\* The fetches of updateOnce's Promise.all (lines 697-715), of which the model
\* keeps three: two that feed a series and the one that feeds the map date.
Sources == {"surface", "co2", "t2MapDate"}
SourceType(s) == IF s = "co2" THEN "text" ELSE "json"

SeriesKeys == {"global_surface_temperature", "atmospheric_co2"}
SourceOf(key) == IF key = "global_surface_temperature" THEN "surface" ELSE "co2"

\* the limits of lines 717-721 and 790-794
Limits(key) ==
    IF key = "global_surface_temperature"
    THEN [minValue |-> 5, maxValue |-> 40, maxAgeDays |-> 20]
    ELSE [minValue |-> 200, maxValue |-> 700, maxAgeDays |-> 120]

\* The points the source's parser finds in a payload: two current points in a
\* "good" one, a point older than the series' maxAgeDays in an "other" one,
\* none in text that holds no rows.
ParsedPoints(key, payload) ==
    LET v == IF key = "global_surface_temperature" THEN 15 ELSE 420 IN
    IF payload.body = "good"
    THEN <<[date |-> Today - 2, value |-> v], [date |-> Today - 1, value |-> v + 1]>>
    ELSE IF payload.body = "other"
        THEN <<[date |-> Today - Limits(key).maxAgeDays - 1, value |-> v]>>
    ELSE <<>>

\* lines 94-100: the date in the payload of last_map_date.json, or Null
dateIsoFromMapDatePayload(payload) ==
    IF payload.body = "good" THEN [kind |-> "date", date |-> Today - 2] ELSE Null

\* lines 811: payload date ?? last date of the series ?? null
MapDateIso(payload, fallbackSeries) ==
    IF dateIsoFromMapDatePayload(payload) # Null THEN dateIsoFromMapDatePayload(payload)
    ELSE IF fallbackSeries # <<>>
        THEN [kind |-> "date", date |-> fallbackSeries[Len(fallbackSeries)].date]
    ELSE Null

summarize_Mutant(ser) ==
    IF ser = <<>> THEN [points |-> 0, latestDate |-> Null, latestValue |-> Null]
    ELSE [points |-> Len(ser), latestDate |-> ser[1].date, latestValue |-> ser[1].value]

\* lines 620-627
summarize(ser) ==
    IF ser = <<>> THEN [points |-> 0, latestDate |-> Null, latestValue |-> Null]
    ELSE [points |-> Len(ser), latestDate |-> ser[Len(ser)].date,
          latestValue |-> ser[Len(ser)].value]

\* line 966 and the verifier's lines 158-159: the text JSON.stringify makes of the
\* output, read back by JSON.parse.  The dates are strings and the values finite
\* numbers, which come back as they were; the verifier is given each series as
\* an array that has no earlier points than those of the file.
ReadBack(output) ==
    [kind |-> "object", generatedAtIso |-> "valid",
     series |-> [k \in DOMAIN output.series |->
                    [kind |-> "array", old |-> 0, recent |-> 0, tail |-> output.series[k]]],
     summary |-> output.summary]

\* lines 824-853: the first two jobs, which share the 2 m temperature map date
MapJobs ==
    <<[key |-> "global_2m_temperature", fileName |-> "global-2m-temperature.png",
       buildUrl |-> "t2"],
      [key |-> "global_2m_temperature_anomaly",
       fileName |-> "global-2m-temperature-anomaly.png", buildUrl |-> "t2anom"]>>
MapKeys == {MapJobs[j].key : j \in 1..Len(MapJobs)}
MapFiles == {MapJobs[j].fileName : j \in 1..Len(MapJobs)}
ArtifactFile == "climate-realtime.json"

\* lines 127-145
BuildUrl(buildUrl, year, dayOfYear) ==
    [product |-> buildUrl, year |-> year, doy |-> mapDayToken(dayOfYear)]

\* lines 152-157: the candidate of one turn of downloadMapWithFallback's loop
Candidate(dateIso, backDays, buildUrl) ==
    LET candidateDate == addUtcDays(dateIso, 0 - backDays)
        candidate == yearDayFromIso(candidateDate)
    IN [date |-> candidateDate,
        url |-> BuildUrl(buildUrl, candidate.year, candidate.dayOfYear)]

\* How each fetch of the run can settle: fetchWithRetry under every sequence
\* of responses its attempts can meet.
SourceOutcomes ==
    [s \in Sources |-> {Settled(fetchWithRetry(s, SourceType(s), r)) : r \in ResponseSeqs}]
MapUrls ==
    {Candidate(d, b, MapJobs[j].buildUrl).url :
        d \in {Today - 2, Today - 1}, b \in 0..MaxBackDaysDefault + 1, j \in 1..Len(MapJobs)}
MapOutcomes ==
    [u \in MapUrls |-> {Settled(fetchWithRetry(u, "arrayBuffer", r)) : r \in ResponseSeqs}]

\* the command lines of the model's runs: at most two different words of --watch,
\* --help and an unknown one
RunArguments ==
    LET words == {Flag("--watch"), Flag("--help"), Flag("--bogus")}
    IN {l \in ListsUpTo(words, 2) : \A i, j \in 1..Len(l) : l[i] = l[j] => i = j}

Init ==
    /\ pc = "start"
    /\ argv \in RunArguments
    /\ options = Null
    /\ helpPrinted = FALSE
    /\ watch = FALSE
    /\ calls = [s \in Sources |-> Null]
    /\ series = [k \in SeriesKeys |-> <<>>]
    /\ dl = Null
    /\ mapSources = [k \in MapKeys |-> Null]
    /\ mapWarnings = <<>>
    /\ disk \in [artifact : {Null, [kind |-> "previous"]}, maps : [MapFiles -> BOOLEAN]]
    /\ written = {}
    /\ outcome = Null
    /\ IdleFetch /\ IdleSanitize /\ IdleLibrary

\* updateOnce is called: lines 678-715, up to the await of Promise.all
BeginUpdate ==
    /\ pc' = "fetching"
    /\ calls' = [s \in Sources |-> Pending]
    /\ series' = [k \in SeriesKeys |-> <<>>]
    /\ dl' = Null
    /\ mapSources' = [k \in MapKeys |-> Null]
    /\ mapWarnings' = <<>>
    /\ written' = {}
    /\ outcome' = Null
    /\ UNCHANGED disk

PcAfterThrow_Mutant(error) == "exit0"

\* lines 1010-1013: run() rejected: the error is printed and the process exits with code 1
PcAfterThrow(error) == "exit1"

\* lines 978-998 and 1010-1013: run() starts: the arguments are parsed; an error
\* thrown ends the process with code 1, --help prints the help and ends it,
\* otherwise updateOnce is called
RunStart ==
    /\ pc = "start"
    /\ options' = parseCliOptions(argv)
    /\ IF options'.kind = "error"
       THEN /\ pc' = PcAfterThrow(options')
            /\ outcome' = options'
            /\ UNCHANGED <<watch, calls, series, dl, mapSources, mapWarnings, disk, written,
                           helpPrinted>>
       ELSE IF options'.showHelp
       THEN /\ pc' = "exit0"
            /\ helpPrinted' = TRUE
            /\ UNCHANGED <<watch, calls, series, dl, mapSources, mapWarnings, disk, written,
                           outcome>>
       ELSE /\ watch' = options'.watch
            /\ BeginUpdate
            /\ UNCHANGED helpPrinted
    /\ UNCHANGED <<argv, fetchVars, sanVars, normVars, mergeVars, parseVars, verifyVars, anomVars, loadVars>>

PcAfterFailure_Mutant(w) == "exit1"

\* updateOnce threw: lines 985-987 and 1010-1013 exit with code 1;
\* the watch loop, lines 997-1006, logs the error and sleeps
PcAfterFailure(w) == IF w THEN "sleeping" ELSE "exit1"

\* lines 985-987: the single run ends; lines 1004-1006: the watch loop sleeps
PcAfterSuccess(w) == IF w THEN "sleeping" ELSE "exit0"

\* Promise.all rejects as soon as one of its elements rejects
PromiseAllAborts(p) == p.st = "rejected"

\* One fetch of the Promise.all settles (all its attempts, retries and waits).
\* If it throws while updateOnce awaits the Promise.all, updateOnce throws
\* that error; the other fetches go on, their results unused.
FetchSettle(s) ==
    /\ pc \in {"fetching", "sleeping"}
    /\ calls[s] = Pending
    /\ \E p \in SourceOutcomes[s] :
        /\ calls' = [calls EXCEPT ![s] = p]
        /\ IF pc = "fetching" /\ PromiseAllAborts(p)
           THEN /\ pc' = PcAfterFailure(watch)
                /\ outcome' = p.error
           ELSE UNCHANGED <<pc, outcome>>
    /\ UNCHANGED <<watch, series, dl, mapSources, mapWarnings, disk, written,
                   fetchVars, sanVars, normVars, mergeVars, parseVars, verifyVars, moreVars>>

NewDownload(job, dateIso) ==
    [job |-> job, st |-> "start", dateIso |-> dateIso, backDays |-> 0,
     lastError |-> Null, lastResult |-> "none", probed |-> <<>>]

\* lines 717-853: every fetch returned: the series are parsed and sanitized,
\* the map date is resolved and the map job loop begins.  The payloads are not
\* read again, and the model drops them.
PromiseAllResolves ==
    /\ pc = "fetching"
    /\ \A s \in Sources : calls[s].st = "fulfilled"
    /\ series' = [k \in SeriesKeys |->
                    sanitizeSeries(ParsedPoints(k, calls[SourceOf(k)].value), Limits(k))]
    /\ dl' = NewDownload(1, MapDateIso(calls["t2MapDate"].value,
                                       series'["global_surface_temperature"]))
    /\ pc' = "maps"
    /\ calls' = [s \in Sources |-> Null]
    /\ UNCHANGED <<watch, mapSources, mapWarnings, disk, written, outcome,
                   fetchVars, sanVars, normVars, mergeVars, parseVars, verifyVars, moreVars>>

-----------------------------------------------------------------------------
(* The map job loop, lines 855-881, and downloadMapWithFallback, lines 147-170 *)

\* the error the loop of downloadMapWithFallback keeps (line 164): its reason, without the URL
ErrorKept(p) == [kind |-> "fetch", reason |-> p.error.reason]

\* line 169 and line 148: the error downloadMapWithFallback throws
DownloadFailed(lastError) == [kind |-> "download-failed", reason |-> lastError]
MissingMapDate == [kind |-> "missing-map-date"]

MapEntry(job, url, date) ==
    [path |-> job.fileName, sourceUrl |-> url, date |-> date]

WarningsAfterFailure_Mutant(warnings, job, existing, reason) ==
    IF existing THEN warnings
    ELSE Append(warnings, [key |-> job.key, kind |-> "failed", reason |-> reason])

\* lines 867-879: the warning pushed by the catch block
WarningsAfterFailure(warnings, job, existing, reason) ==
    IF existing THEN Append(warnings, [key |-> job.key, kind |-> "kept", reason |-> Null])
    ELSE Append(warnings, [key |-> job.key, kind |-> "failed", reason |-> reason])

\* lines 868-875: the maps entry the catch block emits when a file exists
SourcesAfterFailure(sources, job, existing) ==
    IF existing THEN [sources EXCEPT ![job.key] = MapEntry(job, Null, Null)]
    ELSE sources

PcAfterJobFailure_Mutant(w) == PcAfterFailure(w)

\* lines 866-880: the catch block of the job loop ends without throwing again:
\* updateOnce stays in the loop
PcAfterJobFailure(w) == "maps"

\* lines 866-880: job dl.job failed with `reason`; the loop goes on to the next job
JobFails(reason, result, probedNow) ==
    LET job == MapJobs[dl.job]
        existing == disk.maps[job.fileName]
    IN /\ pc' = PcAfterJobFailure(watch)
       /\ mapWarnings' = WarningsAfterFailure(mapWarnings, job, existing, reason)
       /\ mapSources' = SourcesAfterFailure(mapSources, job, existing)
       /\ dl' = [dl EXCEPT !.job = dl.job + 1, !.st = "start", !.backDays = 0,
                           !.lastError = Null, !.lastResult = result, !.probed = probedNow]
       /\ UNCHANGED <<disk, written>>

\* lines 859-865: the download returned: the file is written and the entry recorded
JobSucceeds(url, candidateDate, result, probedNow) ==
    LET job == MapJobs[dl.job] IN
    /\ disk' = [disk EXCEPT !.maps[job.fileName] = TRUE]
    /\ written' = written \cup {job.fileName}
    /\ mapSources' = [mapSources EXCEPT
                        ![job.key] = MapEntry(job, url, [kind |-> "date", date |-> candidateDate])]
    /\ dl' = [dl EXCEPT !.job = dl.job + 1, !.st = "start", !.backDays = 0,
                        !.lastError = Null, !.lastResult = result, !.probed = probedNow]
    /\ UNCHANGED <<pc, mapWarnings>>

\* line 858 and lines 148-149: the loop takes its next job and calls downloadMapWithFallback
MapJobStart ==
    /\ pc = "maps" /\ dl.st = "start" /\ dl.job <= Len(MapJobs)
    /\ IF dl.dateIso = Null
       THEN JobFails(MissingMapDate, "none", <<>>)
       ELSE /\ dl' = [NewDownload(dl.job, dl.dateIso) EXCEPT !.st = "probing"]
            /\ UNCHANGED <<pc, mapSources, mapWarnings, disk, written>>
    /\ UNCHANGED <<watch, calls, series, outcome, fetchVars, sanVars, normVars, mergeVars, parseVars, verifyVars, moreVars>>

\* history: what the download of a candidate came to
ResultClass(p) ==
    IF p.st = "rejected" THEN "error"
    ELSE IF p.value.body = "empty" THEN "empty" ELSE "bytes"

\* line 160: a returned body is taken only when it has bytes
DownloadAccepts(p) == p.st = "fulfilled" /\ p.value.body # "empty"

LoopContinues_Mutant(backDays, maxBackDays) == backDays <= maxBackDays + 1

\* line 151: backDays <= maxBackDays
LoopContinues(backDays, maxBackDays) == backDays <= maxBackDays

\* lines 151-169: one turn of the loop: the candidate is built and downloaded
\* (fetchBinary, with its retries); a body with bytes ends the job, anything
\* else moves to the day before, and after the last candidate the job fails
ProbeCandidate ==
    /\ pc = "maps" /\ dl.st = "probing"
    /\ LET job == MapJobs[dl.job]
           cand == Candidate(dl.dateIso.date, dl.backDays, job.buildUrl)
           probedNow == Append(dl.probed, cand)
       IN \E p \in MapOutcomes[cand.url] :
            LET lastError == IF p.st = "rejected" THEN ErrorKept(p) ELSE dl.lastError
                result == ResultClass(p)
            IN IF DownloadAccepts(p)
               THEN JobSucceeds(cand.url, cand.date, result, probedNow)
               ELSE IF LoopContinues(dl.backDays + 1, MaxBackDaysDefault)
               THEN /\ dl' = [dl EXCEPT !.backDays = dl.backDays + 1, !.lastError = lastError,
                                        !.lastResult = result, !.probed = probedNow]
                    /\ UNCHANGED <<pc, mapSources, mapWarnings, disk, written>>
               ELSE JobFails(DownloadFailed(lastError), result, probedNow)
    /\ UNCHANGED <<watch, calls, series, outcome, fetchVars, sanVars, normVars, mergeVars, parseVars, verifyVars, moreVars>>

EmptySeries(ser) == {k \in SeriesKeys : ser[k] = <<>>}

RefusesToWrite_Mutant(ser) == FALSE

\* lines 955-959: the completeness check
RefusesToWrite(ser) == EmptySeries(ser) # {}

\* lines 883-976: the output is assembled; an empty series makes updateOnce
\* throw, otherwise the dataset file is written and updateOnce returns
Assemble ==
    /\ pc = "maps" /\ dl.st = "start" /\ dl.job > Len(MapJobs)
    /\ IF RefusesToWrite(series)
       THEN /\ outcome' = [kind |-> "incomplete", empty |-> EmptySeries(series)]
            /\ pc' = PcAfterFailure(watch)
            /\ UNCHANGED <<disk, written>>
       ELSE /\ disk' = [disk EXCEPT !.artifact =
                            [kind |-> "dataset", series |-> series,
                             summary |-> [k \in SeriesKeys |-> summarize(series[k])]]]
            /\ written' = written \cup {ArtifactFile}
            /\ outcome' = [kind |-> "ok"]
            /\ pc' = PcAfterSuccess(watch)
    /\ UNCHANGED <<watch, calls, series, dl, mapSources, mapWarnings, fetchVars, sanVars, normVars, mergeVars, parseVars, verifyVars, moreVars>>

\* lines 995-1007: the sleep of the watch loop is over: the next iteration calls updateOnce
WatchWake ==
    /\ pc = "sleeping"
    /\ BeginUpdate
    /\ UNCHANGED <<watch, fetchVars, sanVars, normVars, mergeVars, parseVars, verifyVars, moreVars>>

Next ==
    \/ RunStart
    \/ \E s \in Sources : FetchSettle(s)
    \/ PromiseAllResolves
    \/ MapJobStart
    \/ ProbeCandidate
    \/ Assemble
    \/ WatchWake

Spec == Init /\ [][Next]_vars

\* The timer of the watch loop's sleep (line 1006) fires.
SpecLive == Spec /\ WF_vars(WatchWake)

-----------------------------------------------------------------------------
(* SpecAgree: a series sanitized by the updater and then checked by the     *)
(* verifier, on the same day                                                *)

MaxAgreeLen == 3     \* longest point list given to sanitizeSeries in SpecAgree

\* lines 717-721 and 780-788: the limits updateOnce gives sanitizeSeries for the
\* metrics the verifier has rules for, of which the model keeps two
VerifiedLimits ==
    [global_surface_temperature |-> [minValue |-> 5, maxValue |-> 40, maxAgeDays |-> 20],
     global_sea_ice_extent |-> [minValue |-> 0, maxValue |-> 60, maxAgeDays |-> 20]]

\* the metrics sanitized with these limits
MetricsWith(limits) == {k \in DOMAIN VerifiedLimits : VerifiedLimits[k] = limits}

\* the verifier's lines 64-155 for a series that is what sanitizeSeries returned;
\* the file has no summary
VerifySanitized(key, ser) ==
    verifySeries(key, [kind |-> "array", old |-> 0, recent |-> 0, tail |-> ser],
                 [summary |-> [k \in DOMAIN VerifiedLimits |-> Null]])

\* The points given to sanitizeSeries: dated maxAgeDays + 1 and maxAgeDays days
\* ago, today, tomorrow, 2024-12-01 and 2024-11-31; of a value within both
\* ranges and of one within the sea-ice range only.
AgreePoints ==
    [date : {Today - 21, Today - 20, Today, Today + 1, 335, Overflowing(335)}, value : {15, 50}]
AgreeInputs == UNION {[1..n -> AgreePoints] : n \in 0..MaxAgreeLen}

InitAgree ==
    /\ sanIn \in AgreeInputs
    /\ \E key \in DOMAIN VerifiedLimits : sanLimits = VerifiedLimits[key]
    /\ sanOut = Null
    /\ artifact = Null
    /\ report = Null
    /\ IdleRun /\ IdleFetch /\ IdleNormalize /\ IdleMerge /\ IdleParse /\ IdleMore /\ IdleCli

\* the updater's lines 717-721 and 780-788: the series is sanitized
AgreeSanitize ==
    /\ sanOut = Null
    /\ sanOut' = [kind |-> "series", points |-> sanitizeSeries(sanIn, sanLimits)]
    /\ UNCHANGED <<sanIn, sanLimits, runVars, fetchVars, normVars, mergeVars, parseVars,
                   verifyVars, moreVars>>

\* the verifier's lines 178-180: verifySeries checks the series under the rules
\* of each metric sanitized with these limits
AgreeVerify ==
    /\ sanOut # Null
    /\ report = Null
    /\ report' = [key \in MetricsWith(sanLimits) |-> VerifySanitized(key, sanOut.points)]
    /\ UNCHANGED <<artifact, sanVars, runVars, fetchVars, normVars, mergeVars, parseVars, moreVars>>

NextAgree == AgreeSanitize \/ AgreeVerify

SpecAgree == InitAgree /\ [][NextAgree]_vars

-----------------------------------------------------------------------------
(* SpecSeaIce: the sea-ice series of updateOnce, from the parsed files to    *)
(* the written dataset file                                                 *)

MaxIceLen == 2       \* most points the parser finds in a sea-ice file

\* lines 772-776, 777-781 and 784-788
ArcticLimits == [minValue |-> 0, maxValue |-> 30, maxAgeDays |-> 20]
AntarcticLimits == [minValue |-> 0, maxValue |-> 35, maxAgeDays |-> 20]
GlobalSeaIceLimits == [minValue |-> 0, maxValue |-> 60, maxAgeDays |-> 20]

GlobalSeaIce_Mutant(arctic, antarctic) == sanitizeSeries(arctic, GlobalSeaIceLimits)

\* lines 782-789: globalSeaIceExtent
GlobalSeaIce(arctic, antarctic) ==
    sanitizeSeries(mergeSeaIceSeries(arctic, antarctic), GlobalSeaIceLimits)

\* lines 772-789: the three sea-ice series, from what parseNsidcDailyExtentCsv
\* found in the two files
SeaIceSeriesOf(northParsed, southParsed) ==
    LET arctic == sanitizeSeries(northParsed, ArcticLimits)
        antarctic == sanitizeSeries(southParsed, AntarcticLimits)
    IN [arctic_sea_ice_extent |-> arctic,
        antarctic_sea_ice_extent |-> antarctic,
        global_sea_ice_extent |-> GlobalSeaIce(arctic, antarctic)]

\* What the parser can return (it ends with normalizePoints): points dated
\* maxAgeDays + 1 days ago, yesterday and today, of values that are within both
\* hemispheres' ranges, whose sum with 35 is not within the global range, and
\* within the Antarctic range only.
IcePoints == [date : {Today - 21, Today - 1, Today}, value : {10, 30, 35}]
ParsedIce == {normalizePoints(l) : l \in UNION {[1..n -> IcePoints] : n \in 0..MaxIceLen}}

InitSeaIce ==
    /\ north \in ParsedIce /\ south \in ParsedIce
    /\ merged = Null
    /\ artifact = Null
    /\ report = Null
    /\ IdleRun /\ IdleFetch /\ IdleSanitize /\ IdleNormalize /\ IdleParse /\ IdleMore /\ IdleCli

\* lines 772-789
SanitizeSeaIce ==
    /\ merged = Null
    /\ merged' = [kind |-> "series", series |-> SeaIceSeriesOf(north, south)]
    /\ UNCHANGED <<north, south, runVars, fetchVars, sanVars, normVars, parseVars, verifyVars,
                   moreVars>>

\* lines 955-966: an empty series makes updateOnce throw; otherwise the file is written
WriteSeaIce ==
    /\ merged # Null
    /\ report = Null
    /\ IF \E k \in DOMAIN merged.series : merged.series[k] = <<>>
       THEN /\ report' = [kind |-> "incomplete"]
            /\ UNCHANGED artifact
       ELSE /\ report' = [kind |-> "ok"]
            /\ artifact' = [kind |-> "dataset", series |-> merged.series]
    /\ UNCHANGED <<mergeVars, runVars, fetchVars, sanVars, normVars, parseVars, moreVars>>

NextSeaIce == SanitizeSeaIce \/ WriteSeaIce

SpecSeaIce == InitSeaIce /\ [][NextSeaIce]_vars

-----------------------------------------------------------------------------
(* Properties *)

Finished == outcome # Null
Sanitized == dl # Null
Failed == outcome.kind \in {"fetch", "incomplete"}

\* C1 (Spec): a fetch that fails after its retries does not abort the run by
\* itself: whenever updateOnce has thrown, the series had been parsed and
\* sanitized and the error is the one of the completeness check.
C1_FetchFailureIsolated ==
    (Finished /\ Failed) => (Sanitized /\ outcome.kind = "incomplete")

\* C2 (Spec): with a series empty after sanitization updateOnce throws and does
\* not write the dataset file, whose content stays what it was; the dataset
\* file is written, and changes, only in a run whose series are all non-empty.
C2_NoIncompleteArtifact ==
    /\ [](/\ (Sanitized /\ EmptySeries(series) # {}) =>
                /\ ArtifactFile \notin written
                /\ Finished => (outcome.kind = "incomplete"
                                /\ outcome.empty = EmptySeries(series))
          /\ ArtifactFile \in written =>
                /\ Sanitized /\ EmptySeries(series) = {}
                /\ disk.artifact.kind = "dataset" /\ disk.artifact.series = series)
    /\ [][disk'.artifact # disk.artifact =>
            /\ ArtifactFile \in written' /\ ArtifactFile \notin written
            /\ EmptySeries(series') = {}]_vars

C2_Witness ==
    /\ Finished /\ outcome.kind = "incomplete"
    /\ disk.artifact = [kind |-> "previous"]
    /\ series["global_surface_temperature"] # <<>>

\* C3 (Spec): a run aborted by the completeness check has written no file at
\* all, map images included, when it fails.
C3_AbortBeforeAnyWrite ==
    (Finished /\ outcome.kind = "incomplete") => written = {}

-----------------------------------------------------------------------------
(* Properties of fetchWithRetry (SpecFetch) *)

Is2xx(resp) == resp.kind = "http" /\ resp.status \in 200..299
Undecodable(resp, responseType) ==
    Is2xx(resp) /\ responseType = "json" /\ resp.body \in {"invalid", "empty"}
AttemptFailed(resp, responseType) == ~Is2xx(resp) \/ Undecodable(resp, responseType)
FailureReason(resp, responseType) ==
    IF resp.kind = "transport" THEN [kind |-> "transport"]
    ELSE IF ~Is2xx(resp) THEN [kind |-> "http", status |-> resp.status]
    ELSE [kind |-> "parse"]

\* C4 (SpecFetch): after an attempt that received a 2xx response with a body
\* that cannot be decoded, the call makes no further HTTP attempt.
C4_NoRetryOnParseFailure ==
    \A k \in 1..Len(trace) :
        Undecodable(trace[k].resp, call.responseType) => call.attempt = k

\* C5 (SpecFetch): a call makes at most 3 HTTP attempts; the first successful
\* attempt ends it with that attempt's payload; the k-th failed attempt,
\* k = 1, 2, is followed by a wait of 1500 ms * k; the 3rd failed attempt is
\* followed by no wait and the call throws an error holding the URL and the
\* reason of that last failure.
C5_BoundedLinearRetry ==
    /\ Len(trace) <= 3 /\ call.attempt <= 3
    /\ call.attempt \in {Len(trace), Len(trace) + 1}
    /\ call.st = "returned" => Len(trace) >= 1
    /\ call.st = "thrown" => Len(trace) = 3
    /\ \A k \in 1..Len(trace) :
        LET failed == AttemptFailed(trace[k].resp, call.responseType) IN
        /\ ~failed =>
            /\ k = Len(trace) /\ call.attempt = k /\ call.st = "returned"
            /\ call.result.body = trace[k].resp.body
        /\ (failed /\ k < 3) =>
            /\ trace[k].waitMs = 1500 * k
            /\ k = Len(trace) =>
                \/ call.st = "sleeping" /\ call.attempt = k /\ call.waitMs = 1500 * k
                \/ call.st = "inflight" /\ call.attempt = k + 1
        /\ (failed /\ k = 3) =>
            /\ trace[k].waitMs = 0
            /\ call.st = "thrown"
            /\ call.error.url = call.url
            /\ call.error.reason = FailureReason(trace[k].resp, call.responseType)

C5_Witness ==
    /\ call # Null /\ call.st = "thrown" /\ Len(trace) = 3
    /\ trace[1].waitMs = 1500 /\ trace[2].waitMs = 3000
    /\ trace[1].resp.kind = "transport" /\ trace[3].resp.status = 404

-----------------------------------------------------------------------------
(* Properties of the map jobs (Spec) *)

\* the job the history in dl is about
ProbedJob == IF dl.st = "probing" THEN dl.job ELSE dl.job - 1

\* the URL of a product's map of day d, by the calendar: 2024 has 366 days
ExpectedUrl(product, d) ==
    IF d >= 366 THEN [product |-> product, year |-> 2025, doy |-> d - 365]
    ELSE [product |-> product, year |-> 2024, doy |-> d + 1]

\* C6 (Spec): downloadMapWithFallback probes date, date - 1, ... in that order,
\* one candidate per turn and never one older than date - 20; it goes on only
\* after a download that failed or had no bytes, and the first download with
\* bytes ends it: the entry recorded holds that candidate's date and URL.
C6_ProbeOrder ==
    (Sanitized /\ dl.dateIso # Null /\ (dl.st = "probing" \/ dl.lastResult # "none")) =>
        LET job == MapJobs[ProbedJob]
            n == Len(dl.probed)
        IN /\ n <= 21
           /\ \A i \in 1..n :
                /\ dl.probed[i].date = dl.dateIso.date - (i - 1)
                /\ dl.probed[i].url = ExpectedUrl(job.buildUrl, dl.dateIso.date - (i - 1))
           /\ dl.st = "probing" =>
                /\ n = dl.backDays /\ dl.lastResult # "bytes"
                /\ mapSources[job.key] = Null /\ job.fileName \notin written
           /\ (dl.st = "start" /\ dl.lastResult = "bytes") =>
                /\ n >= 1 /\ job.fileName \in written
                /\ mapSources[job.key] =
                     [path |-> job.fileName, sourceUrl |-> dl.probed[n].url,
                      date |-> [kind |-> "date", date |-> dl.probed[n].date]]
           /\ (dl.st = "start" /\ dl.lastResult \in {"error", "empty"}) =>
                /\ n = 21 /\ job.fileName \notin written

\* the requested date failed, the day before succeeded and is the date recorded
C6_Witness ==
    /\ Sanitized /\ dl.st = "start" /\ dl.job = 2 /\ dl.lastResult = "bytes"
    /\ Len(dl.probed) = 2
    /\ mapSources["global_2m_temperature"].date.date = dl.dateIso.date - 1

WarningsOf(key) == SelectSeq(mapWarnings, LAMBDA w : w.key = key)

\* C7 (Spec): a map job that ended without a download adds exactly one warning;
\* with a file on disk the file is left as it is, the warning says the previous
\* file is kept and a maps entry (without URL and date) is emitted; with no
\* file the warning carries the reason, nothing is written and no entry is emitted.
C7_FailedJobKeepsOrWarns ==
    Sanitized =>
        \A j \in 1..Len(MapJobs) :
            (j < dl.job /\ MapJobs[j].fileName \notin written) =>
                LET job == MapJobs[j]
                    mine == WarningsOf(job.key)
                IN /\ Len(mine) = 1
                   /\ IF disk.maps[job.fileName]
                      THEN /\ mine[1].kind = "kept"
                           /\ mapSources[job.key] =
                                [path |-> job.fileName, sourceUrl |-> Null, date |-> Null]
                      ELSE /\ mine[1].kind = "failed"
                           /\ mine[1].reason.kind \in {"download-failed", "missing-map-date"}
                           /\ mapSources[job.key] = Null

\* all 21 candidates of the first job failed and its file was on disk
C7_Witness ==
    /\ Sanitized /\ dl.st = "start" /\ dl.job = 2
    /\ dl.lastResult \in {"error", "empty"} /\ Len(dl.probed) = 21
    /\ disk.maps["global-2m-temperature.png"]
    /\ "global-2m-temperature.png" \notin written
    /\ Len(mapWarnings) = 1

JobInProgress(j) == Sanitized /\ pc = "maps" /\ dl.job = j /\ dl.st = "probing"
JobStarted(j) == Sanitized /\ (dl.job > j \/ (dl.job = j /\ dl.st = "probing"))

\* C8 (Spec): the map products are downloaded concurrently: while the probing
\* of one product is in progress the probing of the others has begun too, none
\* waiting for another product to end.
C8_MapJobsOverlap ==
    \A j, k \in 1..Len(MapJobs) : JobInProgress(j) => JobStarted(k)

\* C9 (SpecLive): in watch mode the process never exits, and after every
\* iteration that threw (the error logged, the loop asleep) a next iteration
\* is started.
C9_WatchSurvives ==
    /\ [](watch => pc \notin {"exit0", "exit1"})
    /\ (watch /\ Finished /\ Failed) ~> (pc = "fetching")

C9_Witness == watch /\ pc = "sleeping" /\ Finished /\ outcome.kind = "incomplete"

-----------------------------------------------------------------------------
(* Properties of sanitizeSeries (SpecSanitize) *)

\* the dates of the input points that pass the range and future-date filters
RemainingDates ==
    {sanIn[i].date : i \in {k \in 1..Len(sanIn) :
        /\ sanIn[k].value # NotANumber
        /\ sanIn[k].value >= sanLimits.minValue /\ sanIn[k].value <= sanLimits.maxValue
        /\ parseIsoDateToUtc(sanIn[k].date) # Null /\ sanIn[k].date <= Today}}
LatestRemaining == CHOOSE d \in RemainingDates : \A e \in RemainingDates : e <= d

\* C10 (SpecSanitize): when the latest point left by the range and future-date
\* filters is more than maxAgeDays days before today the result is empty,
\* whatever earlier points there are; when it is at most maxAgeDays old every
\* date left by the filters is in the result.
C10_StalenessGate ==
    (sanOut # Null /\ RemainingDates # {}) =>
        IF Today - LatestRemaining > sanLimits.maxAgeDays
        THEN sanOut.points = <<>>
        ELSE {sanOut.points[k].date : k \in 1..Len(sanOut.points)} = RemainingDates

\* a stale latest point empties a series that has two valid points
C10_Witness ==
    /\ sanOut # Null /\ sanOut.points = <<>>
    /\ Cardinality(RemainingDates) = 2
    /\ Today - LatestRemaining = sanLimits.maxAgeDays + 1

\* the input points that are in range, not in the future and dated by a day
Qualifies(i) ==
    /\ sanIn[i].value # NotANumber
    /\ sanIn[i].value >= sanLimits.minValue /\ sanIn[i].value <= sanLimits.maxValue
    /\ sanIn[i].date \notin {InvalidDate, NoSuchDay} /\ sanIn[i].date <= Today

\* C11 (SpecSanitize): every point of the result has its value within
\* [minValue, maxValue] and a date not after today; and when the result is not
\* empty, every input point that is in range, not in the future and dated by a
\* day has its date in the result, with the value of the last such input point
\* of that date.
C11_RangeAndFutureFilter ==
    sanOut # Null =>
        /\ \A k \in 1..Len(sanOut.points) :
              /\ sanOut.points[k].value >= sanLimits.minValue
              /\ sanOut.points[k].value <= sanLimits.maxValue
              /\ sanOut.points[k].date \in 0..Today
        /\ sanOut.points # <<>> =>
              \A i \in 1..Len(sanIn) :
                  (Qualifies(i) /\ \A j \in i + 1..Len(sanIn) :
                                      ~(Qualifies(j) /\ sanIn[j].date = sanIn[i].date)) =>
                      \E k \in 1..Len(sanOut.points) :
                          sanOut.points[k] = [date |-> sanIn[i].date, value |-> sanIn[i].value]

\* a future point and an out-of-range point are dropped, a valid one is kept
C11_Witness ==
    /\ sanOut # Null /\ Len(sanIn) = 2 /\ Len(sanOut.points) = 1
    /\ \E i \in 1..2 : sanIn[i].date = Today + 1 /\ sanIn[i].value = 1
    /\ \E i \in 1..2 : Qualifies(i)

-----------------------------------------------------------------------------
(* Properties of normalizePoints (SpecNormalize) *)

\* C12 (SpecNormalize): the result of normalizePoints has pairwise distinct
\* dates, is strictly increasing by the parsed UTC date of its points, and
\* holds only points whose date has the form YYYY-MM-DD and whose value is finite.
C12_UniqueIncreasing ==
    normOut # Null =>
        LET out == normOut.points IN
        /\ \A i, j \in 1..Len(out) : out[i].date = out[j].date => i = j
        /\ \A i \in 1..Len(out) :
              /\ MatchesDatePattern(out[i].date) /\ IsFiniteNumber(out[i].value)
              /\ parseIsoDateToUtc(out[i].date) # Null
        /\ \A i \in 1..Len(out) - 1 :
              parseIsoDateToUtc(out[i].date).t < parseIsoDateToUtc(out[i + 1].date).t

\* the dates normalizePoints keeps from normIn all name a day
KeepsOnlyDays ==
    \A i \in 1..Len(normIn) :
        (MatchesDatePattern(normIn[i].date) /\ IsFiniteNumber(normIn[i].value))
            => parseIsoDateToUtc(normIn[i].date) # Null

C14_LastWriteWins ==
    normOut # Null =>
        \A i \in 1..Len(normIn) :
            (/\ MatchesDatePattern(normIn[i].date) /\ IsFiniteNumber(normIn[i].value)
             /\ \A j \in i + 1..Len(normIn) :
                    ~(normIn[j].date = normIn[i].date /\ IsFiniteNumber(normIn[j].value))) =>
                /\ Cardinality({k \in 1..Len(normOut.points) :
                                    normOut.points[k].date = normIn[i].date}) = 1
                /\ \E k \in 1..Len(normOut.points) :
                        normOut.points[k] = [date |-> normIn[i].date, value |-> normIn[i].value]

\* two points of one date with values 1 then 2: the result keeps 2
C14_Witness ==
    /\ normOut # Null /\ Len(normIn) = 2
    /\ normIn[1] = [date |-> Today, value |-> 1]
    /\ normIn[2] = [date |-> Today, value |-> 2]
    /\ normOut.points = <<[date |-> Today, value |-> 2]>>

-----------------------------------------------------------------------------
(* Properties of mergeSeaIceSeries (SpecMerge) *)

DatesOf(ser) == {ser[i].date : i \in 1..Len(ser)}
ValueOn(ser, d) == ser[CHOOSE i \in 1..Len(ser) : ser[i].date = d].value

\* C15 (SpecMerge): the merged series has a point of date d exactly when both
\* the north and the south series have one, a single point, whose value is
\* the sum of the two; a date that only one side has is dropped.
C15_MergeIntersection ==
    merged # Null =>
        /\ DatesOf(merged.points) = DatesOf(north) \cap DatesOf(south)
        /\ \A i, j \in 1..Len(merged.points) :
              merged.points[i].date = merged.points[j].date => i = j
        /\ \A d \in DatesOf(merged.points) :
              ValueOn(merged.points, d) = ValueOn(north, d) + ValueOn(south, d)

\* north has one date, south has that date and the next: only the shared date is merged
C15_Witness ==
    /\ merged # Null
    /\ north = <<[date |-> Today - 1, value |-> 2]>>
    /\ south = <<[date |-> Today - 1, value |-> 1], [date |-> Today, value |-> 2]>>
    /\ merged.points = <<[date |-> Today - 1, value |-> 3]>>

-----------------------------------------------------------------------------
(* Properties of the parsers (SpecParse) *)

\* C16 (SpecParse): the CO2 parser given the single line
\* 2024,3,15,422.10,422.05,421.80,10 returns one point, of date 2024-03-15
\* (day 74) and of value 422.10.
C16_Co2Scenario ==
    (/\ parserOut # Null /\ csv.parser = "parseNoaaCo2DailyCsv"
     /\ csv.rows = <<(<<2024, 3, 15, 42210, 42205, 42180, 1000>>)>>) =>
        parserOut.points = <<[date |-> 74, value |-> 42210]>>

\* a row the spec calls malformed: a value that is no number, too few
\* columns, or a date that is no day
Malformed(parser, columns) ==
    IF parser = "parseNoaaCo2DailyCsv"
    THEN \/ Len(columns) < 5 \/ Column(columns, 4) = NotANumber
         \/ formatDateFromParts(Column(columns, 0), Column(columns, 1), Column(columns, 2)) = Null
    ELSE IF parser = "parseNsidcDailyExtentCsv"
    THEN \/ Len(columns) < 4 \/ Column(columns, 3) = NotANumber
         \/ formatDateFromParts(Column(columns, 0), Column(columns, 1), Column(columns, 2)) = Null
    ELSE \/ Len(columns) < 2 \/ Column(columns, 1) = NotANumber
         \/ parseIsoDateToUtc(Column(columns, 0)) = Null

Without(rows, i) == [k \in 1..Len(rows) - 1 |-> IF k < i THEN rows[k] ELSE rows[k + 1]]

\* C17 (SpecParse): for a file of well-formed rows and one malformed row, at
\* any position, the parser returns what it returns for the file without
\* that row: the points of the well-formed rows, and no other.
C17_SkipsMalformedRow ==
    parserOut # Null =>
        \A i \in 1..Len(csv.rows) :
            (/\ Malformed(csv.parser, csv.rows[i])
             /\ \A j \in 1..Len(csv.rows) : j # i => ~Malformed(csv.parser, csv.rows[j])) =>
                parserOut.points \in
                    normalizePointsResults(PushedPoints(csv.parser, csv.header, Without(csv.rows, i)))

-----------------------------------------------------------------------------
(* Properties of the verifier (SpecVerify) *)

\* the file is a dataset whose series object the verifier goes through
HasSeries == artifact.kind = "object" /\ artifact.series # Null

HasError(kind, key) ==
    \E i \in 1..Len(report.errors) : report.errors[i] = [kind |-> kind, key |-> key]

\* the last point of the series that passes the verifier's checks, or Null
LastValidPoint(key) ==
    LET ser == artifact.series[key]
    IN VerifyLoop(key, LoopStart(key, ser), ser.tail).lastPoint

\* the three comparisons of a summary entry with its series, for one key
SummaryFlagged(key) ==
    LET ser == artifact.series[key]
        entry == artifact.summary[key]
        last == LastValidPoint(key)
    IN /\ HasError("summary.points", key) <=> entry.points # SeriesLength(ser)
       /\ last # Null =>
            /\ HasError("summary.latestDate", key) <=> entry.latestDate # last.date
            /\ HasError("summary.latestValue", key) <=> entry.latestValue # last.value

\* C18 (SpecVerify), as stated: for a checked series with a persisted summary
\* entry, the verifier reports a summary mismatch exactly when summary.points
\* differs from the series length, summary.latestDate from the date of the
\* last valid point, or summary.latestValue from its value.
C18_SummaryMismatch ==
    (report # Null /\ HasSeries) =>
        \A i \in 1..Len(RuleKeys) :
            (/\ artifact.series[RuleKeys[i]].kind = "array"
             /\ artifact.summary[RuleKeys[i]] # Null) => SummaryFlagged(RuleKeys[i])

\* C18 (SpecVerify), amended: the same, for a checked series that has at
\* least one valid point.
C18_SummaryMismatchWhenValid ==
    (report # Null /\ HasSeries) =>
        \A i \in 1..Len(RuleKeys) :
            (/\ artifact.series[RuleKeys[i]].kind = "array"
             /\ artifact.summary[RuleKeys[i]] # Null
             /\ LastValidPoint(RuleKeys[i]) # Null) => SummaryFlagged(RuleKeys[i])

\* summary.points is one more than the length of a valid series: that error
\* is reported, and it is the only error
C18_Witness ==
    /\ report # Null /\ HasSeries
    /\ artifact.series.global_surface_temperature.kind = "array"
    /\ artifact.summary.global_surface_temperature # Null
    /\ artifact.summary.global_surface_temperature.points =
            SeriesLength(artifact.series.global_surface_temperature) + 1
    /\ report.errors = <<[kind |-> "summary.points", key |-> "global_surface_temperature"]>>

\* on their shared last date the global sea-ice value differs from the sum of
\* the Arctic and the Antarctic ones by more than 0.02
SeaIceMismatch ==
    LET g == artifact.series.global_sea_ice_extent.tail[1].value
        n == artifact.series.arctic_sea_ice_extent.tail[1].value
        a == artifact.series.antarctic_sea_ice_extent.tail[1].value
        d == g - (n + a)
    IN (IF d < 0 THEN 0 - d ELSE d) * 100 > 2

\* C19 (SpecVerify): for a file in which the global sea-ice extent differs
\* from Arctic + Antarctic by more than 0.02 on a date the three series
\* share, the verifier records a sea-ice identity error, at most 5 of them,
\* and exits with a non-zero code.
C19_SeaIceIdentity ==
    (report # Null /\ HasSeries /\ SeaIceMismatch) =>
        LET found == {i \in 1..Len(report.errors) : report.errors[i].kind = "sea-ice identity"}
        IN /\ found # {} /\ Cardinality(found) <= 5
           /\ report.exit # 0

\* C20 (SpecVerify): the exit code is 1 exactly when an error was collected
\* or the file could not be read, is no object or has no series object, and 0
\* otherwise, whatever the warnings; every warning and every error collected
\* is printed, the warnings before the errors.
C20_ExitCode ==
    report # Null =>
        /\ report.exit \in {0, 1}
        /\ report.threw <=> ~HasSeries
        /\ report.exit = 1 <=> (report.errors # <<>> \/ ~HasSeries)
        /\ \A i \in 1..Len(report.warnings) :
              \E k \in 1..Len(report.printed) :
                  report.printed[k] = [stream |-> "warn", line |-> report.warnings[i]]
        /\ \A i \in 1..Len(report.errors) :
              \E k \in 1..Len(report.printed) :
                  report.printed[k] = [stream |-> "error", line |-> report.errors[i]]
        /\ \A j, k \in 1..Len(report.printed) :
              (report.printed[j].stream = "warn" /\ report.printed[k].stream = "error") => j < k

\* a complete, fresh series with few recent points and no summary entry: two
\* warnings, no error, exit code 0
C20_Witness ==
    /\ report # Null /\ report.exit = 0
    /\ Len(report.warnings) = 2 /\ report.errors = <<>>
    /\ Len(report.printed) = 4

-----------------------------------------------------------------------------
(* Properties of the anomaly derivation (SpecAnomaly) *)

\* every point of the series that is inside the baseline window has the value V
ConstantInWindow == anomIn.change = Null

AnomalyDates == {anomalies[i].date : i \in 1..Len(anomalies)}

InputPoints == {SeriesOf(anomIn)[i] : i \in 1..Len(SeriesOf(anomIn))}

BaselineKnown(point) ==
    /\ dayOfYearFromIso(point.date) # Null
    /\ dayOfYearFromIso(point.date).doy \in DOMAIN climatology

\* every point of value V with a baseline has the anomaly 0, and the points without
\* a baseline are dropped
ZeroAnomalies ==
    /\ \A point \in InputPoints :
          point.value = anomIn.inside /\ BaselineKnown(point)
             => \E i \in 1..Len(anomalies) :
                   anomalies[i].date = point.date /\ anomalies[i].value = 0
    /\ \A point \in InputPoints : ~BaselineKnown(point) => point.date \notin AnomalyDates

\* the distance of two doubles, in units of 2^-49
Distance(a, b) == IF BigLess(a.mag, b.mag) THEN BigMinus(b.mag, a.mag) ELSE BigMinus(a.mag, b.mag)

\* C21 as stated (SpecAnomaly): for a series with the constant value V on every date
\* of the baseline window, the baseline of every day of the year that occurs is V,
\* every point of value V has the anomaly 0, and the points whose day of the year
\* has no baseline are dropped.
C21_RoundTrip ==
    (anomalies # Null /\ ConstantInWindow)
       => /\ \A doy \in DOMAIN climatology : climatology[doy] = anomIn.inside
          /\ ZeroAnomalies

\* C21, amended (SpecAnomaly): for such a series the baseline of every day of the
\* year that occurs is V up to the rounding of the mean (within 8 units of 2^-49
\* for a V of [8, 16)), every point of value V has the anomaly 0, and the points
\* whose day of the year has no baseline are dropped.
C21_RoundTripRounded ==
    (anomalies # Null /\ ConstantInWindow)
       => /\ \A doy \in DOMAIN climatology :
                BigLess(Distance(climatology[doy], anomIn.inside), <<9, 0, 0, 0>>)
          /\ ZeroAnomalies

C21_Witness ==
    /\ anomalies # Null
    /\ ConstantInWindow
    /\ anomIn.outside = <<[date |-> [y |-> 2024, m |-> 2, d |-> 29], value |-> anomIn.inside]>>
    /\ \E doy \in DOMAIN climatology : climatology[doy] # anomIn.inside
    /\ Len(anomalies) = Len(SeriesOf(anomIn)) - 1
    /\ \A i \in 1..Len(anomalies) : anomalies[i].value = 0

-----------------------------------------------------------------------------
(* Properties of parseCliOptions (SpecCli) and of run's start (Spec) *)

IntervalsOf(args) == {i \in 1..Len(args) : args[i].name = "--interval-minutes="}

\* the raw value of the last --interval-minutes argument
LastInterval(args) == args[CHOOSE i \in IntervalsOf(args) : \A j \in IntervalsOf(args) : j <= i].raw

AllKnown(args) == \A i \in 1..Len(args) : args[i].name # "--bogus"

\* C22 as stated (SpecCli): with no unknown argument, --interval-minutes=<n> is
\* accepted for every positive number n and returned as intervalMinutes, the
\* default is 360, and a non-positive or non-numeric n is rejected with an error.
C22_IntervalMinutes ==
    (options # Null /\ AllKnown(argv))
       => IF \E i \in IntervalsOf(argv) : argv[i].raw = NotANumber \/ argv[i].raw <= 0
          THEN options.kind = "error"
          ELSE /\ options.kind = "options"
               /\ options.intervalMinutes =
                     IF IntervalsOf(argv) = {} THEN 3600 ELSE LastInterval(argv)

\* C23 (Spec): an unknown argument makes parseCliOptions throw: no update is
\* started, whatever stands beside it, and the process exits with code 1; the
\* process exits with code 0 only after the help was printed or after a single
\* update wrote the dataset file.
C23_UnknownFlagIsFatal ==
    /\ (pc # "start" /\ ~AllKnown(argv))
          => /\ pc = "exit1"
             /\ options.kind = "error"
             /\ outcome = options
             /\ ~helpPrinted
             /\ \A s \in Sources : calls[s] = Null
             /\ written = {}
    /\ pc = "exit0"
          => \/ helpPrinted /\ written = {}
             \/ ~watch /\ outcome = [kind |-> "ok"] /\ ArtifactFile \in written

C23_Witness ==
    /\ pc = "exit1"
    /\ argv = <<Flag("--watch"), Flag("--bogus")>>
    /\ options = UnknownArgument(Flag("--bogus"))

-----------------------------------------------------------------------------
(* Properties of the dashboard's data loader (SpecLoad) *)

\* the series of the local file that make at least one point
UsableSeries(file) ==
    IF file.kind # "object" \/ file.series = Null THEN {}
    ELSE {k \in CLIMATE_METRIC_KEYS :
             /\ file.series.of[k] # Null
             /\ \E i \in 1..Len(file.series.of[k].items) :
                   /\ file.series.of[k].items[i].date # InvalidDate
                   /\ file.series.of[k].items[i].value # NotANumber}

\* C24 as stated (SpecLoad): the local file is used when it is available and valid;
\* when it is unavailable or invalid, or yields no usable series, the live feeds
\* are fetched; and the returned bundle has a series that is not empty for every
\* metric key.
C24_LoadOrder ==
    loadPc = "done"
       => /\ UsableSeries(localFile) # {} => liveResults = Null
          /\ UsableSeries(localFile) = {} => liveResults # Null
          /\ \A key \in CLIMATE_METRIC_KEYS : dataSource.source.series[key] # <<>>

\* C25 as stated (SpecLoad): the source mode is "live" exactly when every metric
\* key received a series that is not empty, "bundled" exactly when none did and
\* "mixed" otherwise; a local file that holds a valid series for every metric key
\* gives the source mode "live".
C25_SourceMode ==
    loadPc = "done"
       => /\ dataSource.source.sourceMode =
                IF \A key \in CLIMATE_METRIC_KEYS :
                      key \in DOMAIN dataSource.input /\ dataSource.input[key] # <<>>
                THEN "live"
                ELSE IF \A key \in CLIMATE_METRIC_KEYS : key \notin DOMAIN dataSource.input
                THEN "bundled" ELSE "mixed"
          /\ UsableSeries(localFile) = CLIMATE_METRIC_KEYS
                => dataSource.source.sourceMode = "live"

-----------------------------------------------------------------------------
(* Properties of the written artifact (Spec) *)

\* the jobs that ended without a download
FailedJobs == {j \in 1..(dl.job - 1) : MapJobs[j].fileName \notin written}

\* C26 (Spec): map failures are not fatal.  While the map jobs run nothing is
\* thrown, whatever their downloads come to: a step of the job loop stays in the
\* loop, leaves the series as they are and adds at most one warning, and every
\* job that ended without a download has its warning; and a run whose series are
\* all non-empty ends with the dataset file written and without an error.
C26_MapFailuresNotFatal ==
    /\ []((Sanitized /\ pc = "maps") =>
            /\ outcome = Null
            /\ Len(mapWarnings) = Cardinality(FailedJobs))
    /\ []((Sanitized /\ pc # "maps" /\ EmptySeries(series) = {}) =>
            /\ outcome = [kind |-> "ok"]
            /\ ArtifactFile \in written
            /\ disk.artifact.kind = "dataset"
            /\ Len(mapWarnings) = Cardinality(FailedJobs))
    /\ [][(pc = "maps" /\ dl.job <= Len(MapJobs)) =>
            /\ pc' = "maps" /\ outcome' = Null /\ series' = series
            /\ \/ mapWarnings' = mapWarnings
               \/ /\ Len(mapWarnings') = Len(mapWarnings) + 1
                  /\ SubSeq(mapWarnings', 1, Len(mapWarnings)) = mapWarnings]_vars

\* every job failed, the last one on empty bodies, none had a file on disk, and
\* the dataset file was written
C26_Witness ==
    /\ Sanitized /\ outcome = [kind |-> "ok"]
    /\ written = {ArtifactFile}
    /\ Len(mapWarnings) = Len(MapJobs)
    /\ \A i \in 1..Len(mapWarnings) : mapWarnings[i].kind = "failed"
    /\ dl.lastResult = "empty"

\* the series of the written file that the verifier has rules for
VerifiedKeys == SeriesKeys \cap DOMAIN SERIES_RULES

SummaryKinds == {"summary.points", "summary.latestDate", "summary.latestValue"}

\* C27 (Spec): in the dataset file written by updateOnce the summary agrees with
\* the series for every metric key: summary[k].points is the length of
\* series[k], and summary[k].latestDate and latestValue are the date and the
\* value of its last element; and the verifier, given the file, adds no error
\* about the summary.
C27_SummaryAgrees ==
    ArtifactFile \in written =>
        /\ \A k \in SeriesKeys :
              LET ser == disk.artifact.series[k]
                  entry == disk.artifact.summary[k]
              IN /\ ser # <<>>
                 /\ entry.points = Len(ser)
                 /\ entry.latestDate = ser[Len(ser)].date
                 /\ entry.latestValue = ser[Len(ser)].value
        /\ \A k \in VerifiedKeys :
              LET payload == ReadBack(disk.artifact)
                  found == verifySeries(k, payload.series[k], payload).errors
              IN \A i \in 1..Len(found) : found[i].kind \notin SummaryKinds

\* a file written with two points in each series, the summary holding the second
C27_Witness ==
    /\ ArtifactFile \in written
    /\ \A k \in SeriesKeys : Len(disk.artifact.series[k]) = 2
    /\ disk.artifact.summary["global_surface_temperature"] =
          [points |-> 2, latestDate |-> Today - 1, latestValue |-> 16]
    /\ VerifiedKeys # {}

-----------------------------------------------------------------------------
(* Properties of the sanitizer and the verifier together (SpecAgree) *)

PolicyErrors ==
    {"invalid date", "out-of-range value", "dates are not strictly increasing",
     "future date", "stale latest point"}

-----------------------------------------------------------------------------
(* Properties of the sea-ice series of the written file (SpecSeaIce) *)

\* C29 (SpecSeaIce): in the dataset file written by updateOnce every date of
\* global_sea_ice_extent is a date of arctic_sea_ice_extent and of
\* antarctic_sea_ice_extent too, and the global value of that date is the
\* sum of the two hemispheres' values of that date.
C29_GlobalIsSumOfHemispheres ==
    artifact # Null =>
        LET global == artifact.series.global_sea_ice_extent
            arctic == artifact.series.arctic_sea_ice_extent
            antarctic == artifact.series.antarctic_sea_ice_extent
        IN \A i \in 1..Len(global) :
              /\ global[i].date \in DatesOf(arctic) \cap DatesOf(antarctic)
              /\ global[i].value =
                    ValueOn(arctic, global[i].date) + ValueOn(antarctic, global[i].date)

\* both hemispheres have yesterday and today; the sum of yesterday is out of the
\* global range and only today is in the global series
C29_Witness ==
    /\ artifact # Null
    /\ DatesOf(artifact.series.arctic_sea_ice_extent) = {Today - 1, Today}
    /\ DatesOf(artifact.series.antarctic_sea_ice_extent) = {Today - 1, Today}
    /\ DatesOf(artifact.series.global_sea_ice_extent) = {Today}
    /\ artifact.series.global_sea_ice_extent[1].value = 40

-----------------------------------------------------------------------------
(* Properties of the Reanalyzer parsers (SpecReanalyzer) *)

\* C30 as stated (SpecReanalyzer): for every payload, every date in the result
\* of parseReanalyzerDailyAnomalyJson is a date in the result of
\* parseReanalyzerDailyJson: the values trimmed from the end of a year's row
\* make no anomaly point either.
C30_AnomalyDatesInAbsolute ==
    parserOut # Null => DatesOf(parserOut.anomaly) \subseteq DatesOf(parserOut.absolute)


=============================================================================
